---- MODULE Spec2Model ----
(***************************************************************************)
(* A model of the RETROICOR phase-reconstruction code of                   *)
(* src/src/retroicor/lib_retroicor.py and of its driver                    *)
(* src/src/retroicor/retroicorLauren.py.                                   *)
(*                                                                         *)
(* Six specifications share the module:                                    *)
(*   SpecCard  determineCardiacPhases, run block by block on every valid   *)
(*             peak list up to MaxLen samples;                             *)
(*   SpecResp  determineRespiratoryPhases, run segment by segment on every *)
(*             raw signal and alternating peak/trough sets up to           *)
(*             MaxRespLen samples;                                         *)
(*   SpecRun   retro_ts, and runAnalysis with getPhysiologicalNoise-       *)
(*             Components, run statement group by statement group on every *)
(*             combination of the arguments and of the outcomes of the     *)
(*             external filter stages;                                     *)
(*   SpecNiml  ouputInNimlFormat with its two calls of phase_estimator,    *)
(*             run call by call on phase signals, slice-offset lists and   *)
(*             repetition times drawn from bounded sets;                   *)
(*   SpecPeaks getCardiacPeaks and getRespiratoryPeaks, run filter stage   *)
(*             by filter stage on every outcome of the external stages;    *)
(*   SpecRead  readRawInputData, run on every sample list up to            *)
(*             MaxSamples samples, with and without a start time.          *)
(*                                                                         *)
(* Phases are real numbers of the form c + (n/d)*pi with c an integer and  *)
(* n/d a rational; they are kept exactly, as records [c, n, d] with d > 0. *)
(***************************************************************************)
EXTENDS Integers, Sequences, FiniteSets, TLC

VARIABLES
    \* determineCardiacPhases
    cPc,            \* position in determineCardiacPhases
    cPeaks,         \* argument peaks (0-based sample indices, a sequence)
    cFullLength,    \* argument fullLength
    cPhases,        \* local list phases (element i of the list is cPhases[i+1])
    \* determineRespiratoryPhases
    rPc,                    \* position in determineRespiratoryPhases
    rawData,                \* argument rawData (integer amplitudes)
    respiratory_peaks,      \* argument respiratory_peaks (0-based indices)
    respiratory_troughs,    \* argument respiratory_troughs (0-based indices)
    polarity,               \* local polarity, 1 or -1
    peakIndex,              \* local peakIndex
    troughIndex,            \* local troughIndex
    segment,                \* loop counter of the full-segment loop
    finish,                 \* local finish
    respPhases,             \* local array phases
    segLog,                 \* history: the segments computed so far, in order
    \* retro_ts and runAnalysis
    entry,              \* the function called: "retro_ts" or "runAnalysis"
    runPc,              \* position in the call
    return_status,      \* the status code returned to the caller (-1: none yet)
    exception,          \* the exception that left the call ("none": none)
    callArgs,           \* the arguments of retro_ts
    parameters,         \* the dictionary parameters (key -> value)
    resp_info,          \* the dictionary resp_info of retro_ts
    cardiac_info,       \* the dictionary cardiac_info of retro_ts
    outDir,             \* the output directory on disk: "absent", "exists", "created"
    argsFileWritten,    \* arguments.txt was opened for writing
    OutDir,             \* lib_retroicor's global OutDir
    slice_offset,       \* local slice_offset of retro_ts
    called,             \* history: the functions invoked so far, with their exits
    cardiacResult,      \* what the cardiac branch produced
    respiratoryResult,  \* what the respiratory branch produced
    columnNames,        \* the output table's column labels
    physiologicalNoiseComponents, \* what getPhysiologicalNoiseComponents returned
    \* ouputInNimlFormat and phase_estimator
    nPc,            \* position in ouputInNimlFormat
    nArgs,          \* its arguments: the two dictionaries, as one record
    phasee_r,       \* local respiration_info, the result of phase_estimator 'r'
    phasee_c,       \* local cardiac_info, the result of phase_estimator 'c'
    main_info,      \* local dictionary main_info
    head,           \* the dimensions written into the header text
    label,          \* the header text: its opening and its column labels
    reml_out,       \* the data columns, in order
    savedFile,      \* what np.savetxt wrote
    nException,     \* the exception that left ouputInNimlFormat ("none": none)
    \* getCardiacPeaks and getRespiratoryPeaks
    pPc,            \* position: "idle", "recipe" (the next step is the one
                    \* after the stages called so far) or "returned"
    pFunction,      \* which of the two functions is run
    pFilterData,    \* local filterData: "unset", "empty" or "data"
    pPeaks,         \* local peaks: "unset", "empty" or "some"
    pTroughs,       \* local troughs: "unset", "empty" or "some"
    pPeriod,        \* local period: "unset" or the kind of number it holds
    pStages,        \* history: the library stages called so far, in order
    pPrinted,       \* history: the lines of the print statements executed
    pReturn,        \* the return statement taken and what it returned
    \* readRawInputData
    dPc,            \* position in readRawInputData
    respcard_info,  \* argument respcard_info (StartTime in half seconds)
    filename,       \* argument filename
    fileEntries,    \* the lines of that file, and whether one is not a number
    phys_dat,       \* argument and local phys_dat
    v_np            \* the array returned

cardVars == <<cPc, cPeaks, cFullLength, cPhases>>

respVars == <<rPc, rawData, respiratory_peaks, respiratory_troughs, polarity,
              peakIndex, troughIndex, segment, finish, respPhases, segLog>>

runVars == <<entry, runPc, return_status, exception, callArgs, parameters,
             resp_info, cardiac_info, outDir, argsFileWritten, OutDir,
             slice_offset, called, cardiacResult, respiratoryResult,
             columnNames, physiologicalNoiseComponents>>

nimlVars == <<nPc, nArgs, phasee_r, phasee_c, main_info, head, label, reml_out,
              savedFile, nException>>

peakVars == <<pPc, pFunction, pFilterData, pPeaks, pTroughs, pPeriod, pStages,
              pPrinted, pReturn>>

readVars == <<dPc, respcard_info, filename, fileEntries, phys_dat, v_np>>

vars == <<cardVars, respVars, runVars, nimlVars, peakVars, readVars>>

----------------------------------------------------------------------------
(* Bounds of the model.                                                    *)

\* Largest fullLength of a cardiac series.
MaxLen == 6

\* Largest number of samples of a respiratory series.
MaxRespLen == 5

\* The amplitudes a raw respiratory sample takes in the model.
Amplitudes == {0, 1, 3}

----------------------------------------------------------------------------
(* Exact arithmetic on phases c + (n/d)*pi.                                *)

Sgn(x) == IF x > 0 THEN 1 ELSE IF x < 0 THEN -1 ELSE 0

Abs(x) == IF x < 0 THEN -x ELSE x

PhaseVal(c, n, d) == [c |-> c, n |-> n, d |-> d]

\* The sign of c + (n/d)*pi.  When c and n pull in opposite directions the
\* magnitudes |n|*pi and |c|*d are compared with pi taken as 355/113, which
\* decides every ratio |c|*d/|n| that is not within 3e-7 of pi.
PhaseSign(v) ==
    IF v.n = 0 THEN Sgn(v.c)
    ELSE IF v.c = 0 THEN Sgn(v.n)
    ELSE IF Sgn(v.c) = Sgn(v.n) THEN Sgn(v.c)
    ELSE IF Abs(v.n) * 355 > Abs(v.c) * v.d * 113 THEN Sgn(v.n)
    ELSE Sgn(v.c)

PhaseSub(a, b) == PhaseVal(a.c - b.c, a.n * b.d - b.n * a.d, a.d * b.d)

PhaseLeq(a, b) == PhaseSign(PhaseSub(a, b)) <= 0

PhaseLt(a, b) == PhaseSign(PhaseSub(a, b)) < 0

PhaseEq(a, b) == a.c = b.c /\ a.n * b.d = b.n * a.d

Pi == PhaseVal(0, 1, 1)

MinusPi == PhaseVal(0, -1, 1)

----------------------------------------------------------------------------
(* determineCardiacPhases (lib_retroicor.py 439-512).                      *)

RECURSIVE SortedSeq(_)
\* The increasing sequence of the elements of a finite set of integers.
SortedSeq(S) ==
    IF S = {} THEN <<>>
    ELSE LET m == CHOOSE x \in S : \A y \in S : x <= y
         IN  <<m>> \o SortedSeq(S \ {m})

\* The peak lists the function is specified for: strictly increasing, at
\* least 2 entries, all inside [0, fullLength).
CardiacInputs ==
    { [peaks |-> SortedSeq(S), fullLength |-> L] :
        <<S, L>> \in { <<S, L>> \in (SUBSET (0 .. MaxLen - 1)) \X (2 .. MaxLen) :
                         /\ Cardinality(S) >= 2
                         /\ \A x \in S : x < L } }

\* line 466: for i in range(0,peaks[0]): phases.append(-1.0)
Placeholders(peaks) == [i \in 1 .. peaks[1] |-> PhaseVal(-1, 0, 1)]

\* IntervalPhases with the ramp started one sample late: (k*(j-start+1))/period.
IntervalPhasesLate(start, end) ==
    [q \in 1 .. (end - start) |-> PhaseVal(0, 2 * q, end - start)]

\* lines 470-475: the phases of one interval, (k*(j-start))/period with
\* k = 2*pi, for j in range(start,end).
IntervalPhases(start, end) ==
    [q \in 1 .. (end - start) |-> PhaseVal(0, 2 * (q - 1), end - start)]

RECURSIVE AllIntervals(_, _)
\* lines 469-475: the intervals i .. numIntervals-1 appended in order.
AllIntervals(peaks, i) ==
    IF i >= Len(peaks) THEN <<>>
    ELSE IntervalPhases(peaks[i], peaks[i + 1]) \o AllIntervals(peaks, i + 1)

RECURSIVE HeadFill(_, _, _, _)
\* lines 480-482: phases[oIndex] = phases[iIndex]; iIndex = iIndex + 1, for
\* oIndex in range(0, n).  (iIndex < len(phases) throughout, because
\* iIndex <= peaks[1] - 1 < peaks[-1] = len(phases).)
HeadFill(ph, oIndex, iIndex, n) ==
    IF oIndex >= n THEN ph
    ELSE HeadFill([ph EXCEPT ![oIndex + 1] = ph[iIndex + 1]], oIndex + 1, iIndex + 1, n)

RECURSIVE TailFill(_, _, _)
\* lines 488-490: phases.append(phases[iIndex]); iIndex = iIndex + 1, left
\* times.  Reading phases[iIndex] with iIndex >= len(phases) raises
\* IndexError: the result then has ok = FALSE.
TailFill(ph, iIndex, left) ==
    IF left = 0 THEN [ok |-> TRUE, ph |-> ph]
    ELSE IF iIndex >= Len(ph) THEN [ok |-> FALSE, ph |-> ph]
    ELSE TailFill(Append(ph, ph[iIndex + 1]), iIndex + 1, left - 1)

\* line 486: iIndex = peaks[-2] + 1
TailStart(peaks) == peaks[Len(peaks) - 1] + 1

\* line 493: phases = [x - math.pi for x in phases]
ShiftPhases(ph) == [i \in 1 .. Len(ph) |-> PhaseVal(ph[i].c, ph[i].n - ph[i].d, ph[i].d)]

\* The variables of the peak finders while another function is run.
PeakIdle ==
    /\ pPc = "idle"
    /\ pFunction = "none"
    /\ pFilterData = "unset"
    /\ pPeaks = "unset"
    /\ pTroughs = "unset"
    /\ pPeriod = "unset"
    /\ pStages = <<>>
    /\ pPrinted = <<>>
    /\ pReturn = [line |-> 0, values |-> 0, peaks |-> "unset", troughs |-> "unset"]

\* The variables of readRawInputData while another function is run.
ReadIdle ==
    /\ dPc = "idle"
    /\ respcard_info = <<>>
    /\ filename = "None"
    /\ fileEntries = [entries |-> <<>>, invalid |-> FALSE]
    /\ phys_dat = <<>>
    /\ v_np = <<>>

\* The variables of ouputInNimlFormat while another function is run.
NimlIdle ==
    /\ nPc = "idle"
    /\ nArgs = <<>>
    /\ phasee_r = <<>>
    /\ phasee_c = <<>>
    /\ main_info = <<>>
    /\ head = <<>>
    /\ label = <<>>
    /\ reml_out = <<>>
    /\ savedFile = <<>>
    /\ nException = "none"

\* The variables of retro_ts and runAnalysis while another function is run.
RunIdle ==
    /\ entry = "none"
    /\ runPc = "idle"
    /\ return_status = -1
    /\ exception = "none"
    /\ callArgs = <<>>
    /\ parameters = <<>>
    /\ resp_info = <<>>
    /\ cardiac_info = <<>>
    /\ outDir = "absent"
    /\ argsFileWritten = FALSE
    /\ OutDir = "."
    /\ slice_offset = <<>>
    /\ called = <<>>
    /\ cardiacResult = "idle"
    /\ respiratoryResult = "idle"
    /\ columnNames = <<>>
    /\ physiologicalNoiseComponents = "idle"

\* The respiratory variables while another function is being run.
RespIdle ==
    /\ rPc = "idle"
    /\ rawData = <<>>
    /\ respiratory_peaks = <<>>
    /\ respiratory_troughs = <<>>
    /\ polarity = 0
    /\ peakIndex = 0
    /\ troughIndex = 0
    /\ segment = 0
    /\ finish = 0
    /\ respPhases = <<>>
    /\ segLog = <<>>

CardInit ==
    /\ RespIdle
    /\ RunIdle
    /\ NimlIdle
    /\ PeakIdle
    /\ ReadIdle
    /\ cPc = "placeholders"
    /\ \E inp \in CardiacInputs :
         /\ cPeaks = inp.peaks
         /\ cFullLength = inp.fullLength
    /\ cPhases = <<>>

CardPlaceholders ==
    /\ cPc = "placeholders"
    /\ cPhases' = Placeholders(cPeaks)
    /\ cPc' = "intervals"
    /\ UNCHANGED <<cPeaks, cFullLength, respVars, runVars, nimlVars, peakVars, readVars>>

CardIntervals ==
    /\ cPc = "intervals"
    /\ cPhases' = cPhases \o AllIntervals(cPeaks, 1)
    /\ cPc' = "head"
    /\ UNCHANGED <<cPeaks, cFullLength, respVars, runVars, nimlVars, peakVars, readVars>>

CardHead ==
    /\ cPc = "head"
    /\ cPhases' = HeadFill(cPhases, 0, cPeaks[2] - cPeaks[1], cPeaks[1])
    /\ cPc' = "tail"
    /\ UNCHANGED <<cPeaks, cFullLength, respVars, runVars, nimlVars, peakVars, readVars>>

CardTail ==
    /\ cPc = "tail"
    /\ LET r == TailFill(cPhases, TailStart(cPeaks), cFullLength - cPeaks[Len(cPeaks)])
       IN  IF ~r.ok
           THEN /\ cPc' = "IndexError"
                /\ UNCHANGED cPhases
           ELSE /\ cPc' = "shift"
                /\ cPhases' = r.ph
    /\ UNCHANGED <<cPeaks, cFullLength, respVars, runVars, nimlVars, peakVars, readVars>>

CardShift ==
    /\ cPc = "shift"
    /\ cPhases' = ShiftPhases(cPhases)
    /\ cPc' = "done"
    /\ UNCHANGED <<cPeaks, cFullLength, respVars, runVars, nimlVars, peakVars, readVars>>

CardNext ==
    \/ CardPlaceholders
    \/ CardIntervals
    \/ CardHead
    \/ CardTail
    \/ CardShift

SpecCard == CardInit /\ [][CardNext]_vars

----------------------------------------------------------------------------
(* Properties of determineCardiacPhases.                                   *)

\* v lies in [-pi, pi).
InMinusPiPi(v) == PhaseLeq(MinusPi, v) /\ PhaseLt(v, Pi)

cLast == cPeaks[Len(cPeaks)]

cLast2 == cPeaks[Len(cPeaks) - 1]

\* C1: every value of the returned phase sequence lies in [-pi, pi), the
\* samples before the first peak and after the last peak included.
C1_CardiacRange ==
    cPc = "done" => \A i \in 1 .. Len(cPhases) : InMinusPiPi(cPhases[i])

\* C2: every sample t with peak[-1] <= t < fullLength gets the phase of
\* sample peak[-2] + (t - peak[-1]): the tail starts at the first sample of
\* the last completed cycle.
C2_TailFromCycleStart ==
    cPc = "done" =>
        \A t \in cLast .. cFullLength - 1 :
            PhaseEq(cPhases[t + 1], cPhases[cLast2 + (t - cLast) + 1])

\* C3: the function completes without an index failure and returns exactly
\* fullLength values, also when the last two peaks are adjacent samples.
C3_CardiacLength ==
    /\ cPc # "IndexError"
    /\ cPc = "done" => Len(cPhases) = cFullLength

\* C4: in the returned sequence every sample t with peak[i] <= t < peak[i+1]
\* has the value 2*pi*(t - peak[i])/(peak[i+1] - peak[i]) - pi; hence the
\* phase is non-decreasing in t inside the interval and is at the
\* interval's minimum on the peak sample.
C4_IntervalRamp ==
    cPc = "done" =>
        \A i \in 1 .. Len(cPeaks) - 1 :
            \A t \in cPeaks[i] .. cPeaks[i + 1] - 1 :
                /\ PhaseEq(cPhases[t + 1],
                           PhaseVal(0, 2 * (t - cPeaks[i]) - (cPeaks[i + 1] - cPeaks[i]),
                                    cPeaks[i + 1] - cPeaks[i]))
                /\ PhaseLeq(cPhases[cPeaks[i] + 1], cPhases[t + 1])
                /\ t > cPeaks[i] => PhaseLeq(cPhases[t], cPhases[t + 1])

\* A returned sequence with two or more intervals, the first longer than one
\* sample, with samples before the first peak (and, as always, after the last).
C4_Witness ==
    /\ cPc = "done"
    /\ Len(cPeaks) >= 3
    /\ cPeaks[1] > 0
    /\ cPeaks[2] - cPeaks[1] >= 2
    /\ cLast < cFullLength

----------------------------------------------------------------------------
(* determineRespiratoryPhases (lib_retroicor.py 585-758).                  *)

\* line 620
NUM_BINS == 100

RECURSIVE SeqMin(_)
SeqMin(q) ==
    IF Len(q) = 1 THEN q[1]
    ELSE LET m == SeqMin(Tail(q)) IN IF q[1] <= m THEN q[1] ELSE m

RECURSIVE SeqMax(_)
SeqMax(q) ==
    IF Len(q) = 1 THEN q[1]
    ELSE LET m == SeqMax(Tail(q)) IN IF q[1] >= m THEN q[1] ELSE m

Min2(a, b) == IF a <= b THEN a ELSE b

Max2(a, b) == IF a >= b THEN a ELSE b

\* np.argmin: the (0-based) position of the first smallest entry.
ArgMin(q) == (CHOOSE i \in 1 .. Len(q) :
                 /\ q[i] = SeqMin(q)
                 /\ \A j \in 1 .. i - 1 : q[j] # SeqMin(q)) - 1

\* Python's round() of the float n/d (d # 0): to the nearest integer, a tie
\* to the even one.
RoundHalfEven(n, d) ==
    LET nn == IF d < 0 THEN -n ELSE n
        dd == IF d < 0 THEN -d ELSE d
        q  == nn \div dd
        r  == nn - q * dd
    IN  IF 2 * r < dd THEN q
        ELSE IF 2 * r > dd THEN q + 1
        ELSE IF q % 2 = 0 THEN q ELSE q + 1

\* np.histogram(sample, bins=NUM_BINS): NUM_BINS equal bins over
\* [min(sample), max(sample)], the last bin closed on the right; a sample of
\* one value only is binned over [value - 0.5, value + 0.5].  The (0-based)
\* bin of x is:
BinOf(x, lo, hi) ==
    IF lo = hi THEN (NUM_BINS * (2 * (x - lo) + 1)) \div 2
    ELSE Min2(((x - lo) * NUM_BINS) \div (hi - lo), NUM_BINS - 1)

\* counts, bins = np.histogram(sample, bins=NUM_BINS): counts[b] is the number
\* of samples whose bin is b.
Histogram(sample, b) ==
    LET lo == SeqMin(sample)
        hi == SeqMax(sample)
    IN  Cardinality({i \in 1 .. Len(sample) : BinOf(sample[i], lo, hi) = b})

\* SumCounts summing the bins from end upwards instead: counts[end:].
SumCountsAbove(sample, end) ==
    LET lo == SeqMin(sample)
        hi == SeqMax(sample)
    IN  Cardinality({i \in 1 .. Len(sample) : BinOf(sample[i], lo, hi) >= end})

\* count = 0; for j in range(0,end): count = count + counts[j]
\* The sum of counts[0], ..., counts[end-1] is the number of samples whose
\* bin is below end (none when end <= 0).
SumCounts(sample, end) ==
    LET lo == SeqMin(sample)
        hi == SeqMax(sample)
    IN  Cardinality({i \in 1 .. Len(sample) : BinOf(sample[i], lo, hi) < end})

\* lines 656 and 720-721: a boundary segment clips the summation limit to
\* len(counts) - 1.
BoundaryClip == NUM_BINS - 1

\* line 690: a full segment clips the summation limit to len(counts).
FullClip == NUM_BINS

\* The float error of round(sample[i]*NUM_BINS/Rmax) with Rmax = 0: the
\* quotient is nan for a zero sample (ValueError) and +-inf otherwise
\* (OverflowError); the first sample of the loop decides.
RoundFailure(sample) == IF sample[1] = 0 THEN "ValueError" ELSE "OverflowError"

\* PhaseOf with the cardiac factor 2*pi in place of pi.
PhaseOfTwoPi(count, pol, denom) == PhaseVal(0, 2 * pol * count, denom)

\* lines 661, 696, 729: phases[i] = (math.pi*count*polarity)/denom
PhaseOf(count, pol, denom) == PhaseVal(0, pol * count, denom)

\* NextPolarity without the sign change.
NextPolarityKept(pol) == pol

\* lines 665, 700: polarity = -polarity
NextPolarity(pol) == -pol

\* One segment's loop (651-661, 685-696, 717-729): for every sample of the
\* segment, end = round(sample*NUM_BINS/Rmax) clipped to clip, count the
\* histogram below end, phase = (math.pi*count*polarity)/denom.
SegmentPhases(sample, Rmax, clip, pol, denom) ==
    IF Rmax = 0
    THEN [err |-> RoundFailure(sample), ph |-> <<>>]
    ELSE [err |-> "none",
          ph  |-> [i \in 1 .. Len(sample) |->
                     PhaseOf(SumCounts(sample,
                                 Min2(RoundHalfEven(sample[i] * NUM_BINS, Rmax), clip)),
                             pol, denom)]]

\* phases[start:finish] = ph
WritePhases(phases, start, ph) ==
    [i \in 1 .. Len(phases) |->
        IF i > start /\ i <= start + Len(ph) THEN ph[i - start] ELSE phases[i]]

\* rawData[start:finish], each entry less base.
Shifted(data, start, fin, base) ==
    [i \in 1 .. (fin - start) |-> data[start + i] - base]

RECURSIVE EveryOther(_, _)
\* The entries k, k+2, k+4, ... of a sequence.
EveryOther(q, k) ==
    IF k > Len(q) THEN <<>> ELSE <<q[k]>> \o EveryOther(q, k + 2)

\* The arguments the function is specified for: a raw signal, and peaks and
\* troughs that strictly alternate in time, at least one of each, all inside
\* the signal.
RespiratoryInputs ==
    { [raw     |-> inp[1],
       peaks   |-> EveryOther(SortedSeq(inp[2]), IF inp[3] THEN 1 ELSE 2),
       troughs |-> EveryOther(SortedSeq(inp[2]), IF inp[3] THEN 2 ELSE 1)] :
        inp \in UNION { [1 .. N -> Amplitudes]
                            \X { S \in SUBSET (0 .. N - 1) : Cardinality(S) >= 2 }
                            \X BOOLEAN :
                        N \in 2 .. MaxRespLen } }

\* The cardiac variables while another function is being run.
CardIdle ==
    /\ cPc = "idle"
    /\ cPeaks = <<>>
    /\ cFullLength = 0
    /\ cPhases = <<>>

RespInit ==
    /\ CardIdle
    /\ RunIdle
    /\ NimlIdle
    /\ PeakIdle
    /\ ReadIdle
    /\ rPc = "setup"
    /\ \E inp \in RespiratoryInputs :
         /\ rawData = inp.raw
         /\ respiratory_peaks = inp.peaks
         /\ respiratory_troughs = inp.troughs
    /\ polarity = 0
    /\ peakIndex = 0
    /\ troughIndex = 0
    /\ segment = 0
    /\ finish = 0
    /\ respPhases = <<>>
    /\ segLog = <<>>

\* line 629
numFullSegments == Len(respiratory_peaks) + Len(respiratory_troughs) - 1

\* lines 618-632: shift the signal to a zero minimum, choose the first
\* polarity, zero the phases.
RespSetup ==
    /\ rPc = "setup"
    /\ rawData' = [i \in 1 .. Len(rawData) |-> rawData[i] - SeqMin(rawData)]
    /\ polarity' = IF respiratory_peaks[1] < respiratory_troughs[1] THEN 1 ELSE -1
    /\ respPhases' = [i \in 1 .. Len(rawData) |-> PhaseVal(0, 0, 1)]
    /\ rPc' = "head"
    /\ UNCHANGED <<respiratory_peaks, respiratory_troughs, peakIndex, troughIndex,
                   segment, finish, segLog, cardVars, runVars, nimlVars, peakVars, readVars>>

\* lines 634-670: the samples before the first full segment.
RespHead ==
    /\ rPc = "head"
    /\ LET tI     == ArgMin(respiratory_troughs)
           p0     == respiratory_peaks[1]
           t      == respiratory_troughs[tI + 1]
           fin    == IF Min2(p0, t) = 0 THEN Max2(p0, t) ELSE Min2(p0, t)
           sample == Shifted(rawData, 0, fin, rawData[t + 1])
           Rmax   == IF polarity > 0 THEN SeqMax(sample) ELSE rawData[p0 + 1]
           res    == SegmentPhases(sample, Rmax, BoundaryClip, polarity, fin)
       IN  /\ finish' = fin
           /\ IF res.err # "none"
              THEN /\ rPc' = res.err
                   /\ UNCHANGED <<respPhases, polarity, peakIndex, troughIndex, segLog>>
              ELSE /\ respPhases' = WritePhases(respPhases, 0, res.ph)
                   /\ segLog' = Append(segLog, [kind |-> "head", start |-> 0, finish |-> fin,
                                                polarity |-> polarity, sample |-> sample,
                                                ph |-> res.ph])
                   /\ polarity' = NextPolarity(polarity)
                   /\ peakIndex' = 0
                   /\ troughIndex' = 0
                   /\ rPc' = "full"
    /\ UNCHANGED <<rawData, respiratory_peaks, respiratory_troughs, segment, cardVars, runVars, nimlVars, peakVars, readVars>>

\* lines 671-703: one iteration of the loop over the full segments.
RespSegment ==
    /\ rPc = "full"
    /\ LET p      == respiratory_peaks[peakIndex + 1]
           t      == respiratory_troughs[troughIndex + 1]
           start  == Min2(p, t)
           fin    == Max2(p, t)
           raw    == Shifted(rawData, start, fin, rawData[t + 1])
           sample == [i \in 1 .. Len(raw) |-> raw[i] - SeqMin(raw)]
           res    == SegmentPhases(sample, SeqMax(sample), FullClip, polarity, fin - start)
           newP   == IF NextPolarity(polarity) > 0 THEN peakIndex + 1 ELSE peakIndex
           newT   == IF NextPolarity(polarity) > 0 THEN troughIndex ELSE troughIndex + 1
       IN  /\ finish' = fin
           /\ IF res.err # "none"
              THEN /\ rPc' = res.err
                   /\ UNCHANGED <<respPhases, polarity, peakIndex, troughIndex, segment, segLog>>
              ELSE /\ respPhases' = WritePhases(respPhases, start, res.ph)
                   /\ segLog' = Append(segLog, [kind |-> "full", start |-> start, finish |-> fin,
                                                polarity |-> polarity, sample |-> sample,
                                                ph |-> res.ph])
                   /\ polarity' = NextPolarity(polarity)
                   /\ peakIndex' = newP
                   /\ troughIndex' = newT
                   /\ segment' = segment + 1
                   /\ rPc' = IF \/ newP >= Len(respiratory_peaks)
                                \/ newT >= Len(respiratory_troughs)
                                \/ segment + 1 >= numFullSegments
                             THEN "tail" ELSE "full"
    /\ UNCHANGED <<rawData, respiratory_peaks, respiratory_troughs, cardVars, runVars, nimlVars, peakVars, readVars>>

\* lines 705-729: the samples after the last full segment.
RespTail ==
    /\ rPc = "tail"
    /\ LET start  == finish
           fin    == Len(rawData)
           lastT  == respiratory_troughs[Len(respiratory_troughs)]
           lastP  == respiratory_peaks[Len(respiratory_peaks)]
           sample == Shifted(rawData, start, fin, rawData[lastT + 1])
           Rmax   == IF polarity < 0 THEN SeqMax(sample) ELSE rawData[lastP + 1]
           res    == SegmentPhases(sample, Rmax, BoundaryClip, polarity, fin - start)
       IN  /\ finish' = fin
           /\ IF res.err # "none"
              THEN /\ rPc' = res.err
                   /\ UNCHANGED <<respPhases, segLog>>
              ELSE /\ respPhases' = WritePhases(respPhases, start, res.ph)
                   /\ segLog' = Append(segLog, [kind |-> "tail", start |-> start, finish |-> fin,
                                                polarity |-> polarity, sample |-> sample,
                                                ph |-> res.ph])
                   /\ rPc' = "done"
    /\ UNCHANGED <<rawData, respiratory_peaks, respiratory_troughs, polarity,
                   peakIndex, troughIndex, segment, cardVars, runVars, nimlVars, peakVars, readVars>>

RespNext ==
    \/ RespSetup
    \/ RespHead
    \/ RespSegment
    \/ RespTail

SpecResp == RespInit /\ [][RespNext]_vars

----------------------------------------------------------------------------
(* Properties of determineRespiratoryPhases.  segLog holds, for every      *)
(* segment computed so far, its kind (head, full, tail), its sample range  *)
(* [start, finish), the polarity it was computed with, its (shifted)       *)
(* samples and the phases computed for them.                               *)

PeakSet == {respiratory_peaks[i] : i \in 1 .. Len(respiratory_peaks)}

TroughSet == {respiratory_troughs[i] : i \in 1 .. Len(respiratory_troughs)}

firstExtremum == Min2(respiratory_peaks[1], respiratory_troughs[1])

secondExtremum == Max2(respiratory_peaks[1], respiratory_troughs[1])

lastPeak == respiratory_peaks[Len(respiratory_peaks)]

\* The boundary pass of a signal whose first extremum is sample 0: line 640
\* then stretches the (empty) boundary segment to the second extremum.
StretchedHead(e) == e.kind = "head" /\ firstExtremum = 0

\* C5: every value of the returned phase sequence lies in (-pi, pi]; -pi is
\* never produced.
C5_RespRangeHalfOpen ==
    rPc = "done" =>
        \A i \in 1 .. Len(respPhases) :
            PhaseLt(MinusPi, respPhases[i]) /\ PhaseLeq(respPhases[i], Pi)

\* C5 as amended: every value of the returned phase sequence, and every
\* phase computed on the way, lies in the closed range [-pi, pi].
C5_RespRangeClosed ==
    /\ \A i \in 1 .. Len(respPhases) :
           PhaseLeq(MinusPi, respPhases[i]) /\ PhaseLeq(respPhases[i], Pi)
    /\ \A k \in 1 .. Len(segLog) :
           \A i \in 1 .. Len(segLog[k].ph) :
               PhaseLeq(MinusPi, segLog[k].ph[i]) /\ PhaseLeq(segLog[k].ph[i], Pi)

\* A returned phase sequence that holds the value -pi.
C5_Witness ==
    /\ rPc = "done"
    /\ \E i \in 1 .. Len(respPhases) : PhaseEq(respPhases[i], MinusPi)

\* The polarity rule of one computed segment: +1 when it ends at a peak, -1
\* when it ends at a trough or follows the last peak.
PolarityRule(e) ==
    /\ (e.kind # "tail" /\ e.finish \in PeakSet) => e.polarity = 1
    /\ (e.kind # "tail" /\ e.finish \in TroughSet) => e.polarity = -1
    /\ (e.kind = "tail" /\ e.start = lastPeak) => e.polarity = -1

\* The phases of a segment have the sign of its polarity.
SignRule(e) ==
    \A i \in 1 .. Len(e.ph) :
        /\ e.polarity = 1 => PhaseLeq(PhaseVal(0, 0, 1), e.ph[i])
        /\ e.polarity = -1 => PhaseLeq(e.ph[i], PhaseVal(0, 0, 1))

\* C6: the segments are computed in time order with alternating polarity, +1
\* for every segment that ends at a peak (the boundary segment before a
\* first peak included), -1 for every segment that ends at a trough or
\* follows the last peak; phase >= 0 on +1 segments, <= 0 on -1 segments.
C6_PolarityAlternates ==
    \A k \in 1 .. Len(segLog) :
        /\ PolarityRule(segLog[k])
        /\ SignRule(segLog[k])
        /\ k > 1 => /\ segLog[k].polarity # segLog[k - 1].polarity
                    /\ segLog[k - 1].start <= segLog[k].start

\* C6 as amended: the rule holds for every full segment, for the final
\* boundary segment, and for the first boundary segment when the first
\* extremum is not sample 0.  When it is sample 0 the first pass runs up to
\* the second extremum with the polarity of the segment that would end at
\* sample 0, and the first full segment then recomputes exactly those
\* samples; so every returned phase comes from a segment that obeys the
\* rule.  Consecutive passes always differ in polarity and each segment
\* starts where the one before it ended.
C6_PolarityAlternatesAmended ==
    /\ \A k \in 1 .. Len(segLog) :
        LET e == segLog[k]
        IN  /\ ~StretchedHead(e) => PolarityRule(e)
            /\ StretchedHead(e) =>
                   /\ e.finish = secondExtremum
                   /\ e.polarity = IF respiratory_peaks[1] = 0 THEN 1 ELSE -1
            /\ SignRule(e)
            /\ k > 1 =>
                   /\ e.polarity # segLog[k - 1].polarity
                   /\ IF StretchedHead(segLog[k - 1])
                      THEN e.start = 0 /\ e.finish = segLog[k - 1].finish
                      ELSE e.start = segLog[k - 1].finish
    /\ rPc = "done" =>
           \A i \in 1 .. Len(respPhases) :
               \E k \in 1 .. Len(segLog) :
                   /\ ~StretchedHead(segLog[k])
                   /\ segLog[k].start < i /\ i <= segLog[k].finish
                   /\ respPhases[i] = segLog[k].ph[i - segLog[k].start]

\* A completed run that computed the first boundary segment, two full
\* segments of opposite polarity and the final boundary segment.
C6_Witness ==
    /\ rPc = "done"
    /\ Len(segLog) >= 4
    /\ segLog[2].polarity = -segLog[3].polarity

\* C7: inside every computed segment, of either polarity, the phase is
\* non-decreasing in amplitude: value(a) <= value(b) implies
\* phase(a) <= phase(b).
C7_MonotoneInAmplitude ==
    \A k \in 1 .. Len(segLog) :
        \A a, b \in 1 .. Len(segLog[k].sample) :
            segLog[k].sample[a] <= segLog[k].sample[b] =>
                PhaseLeq(segLog[k].ph[a], segLog[k].ph[b])

\* C7 as amended: inside every computed segment the phase is monotone in
\* amplitude in the direction of the segment's polarity: value(a) <=
\* value(b) implies phase(a) <= phase(b) on a +1 segment and
\* phase(a) >= phase(b) on a -1 segment.
C7_MonotoneBySign ==
    \A k \in 1 .. Len(segLog) :
        \A a, b \in 1 .. Len(segLog[k].sample) :
            segLog[k].sample[a] <= segLog[k].sample[b] =>
                IF segLog[k].polarity = 1
                THEN PhaseLeq(segLog[k].ph[a], segLog[k].ph[b])
                ELSE PhaseLeq(segLog[k].ph[b], segLog[k].ph[a])

\* Segments of both polarities, each with two samples of different amplitude
\* and different phase.
C7_Witness ==
    \A pol \in {1, -1} :
        \E k \in 1 .. Len(segLog) :
            /\ segLog[k].polarity = pol
            /\ \E a, b \in 1 .. Len(segLog[k].sample) :
                   /\ segLog[k].sample[a] < segLog[k].sample[b]
                   /\ ~PhaseEq(segLog[k].ph[a], segLog[k].ph[b])

\* The exceptions round() raises on the quotient by a zero Rmax.
RoundFailures == {"ValueError", "OverflowError"}

\* C26: determineRespiratoryPhases never leaves with the error of a
\* division by a zero Rmax: a segment whose reference maximum is 0 is
\* detected before sample*NUM_BINS/Rmax is computed.
C26_ZeroRmaxGuarded == rPc \notin RoundFailures

\* C27: for the histogram of every segment computed and every summation
\* limit, the clip of the boundary segments and the clip of the full
\* segments give the same cumulative count.
C27_BoundaryAsFull ==
    \A k \in 1 .. Len(segLog) :
        \A end \in 0 .. NUM_BINS :
            SumCounts(segLog[k].sample, Min2(end, BoundaryClip))
                = SumCounts(segLog[k].sample, Min2(end, FullClip))

(***************************************************************************)
(* retro_ts (retroicorLauren.py) and runAnalysis (lib_retroicor.py).       *)
(*                                                                         *)
(* Python's None is the string "None" where a file name is expected and 0  *)
(* where the sampling frequency is expected (both are falsy in the code).  *)
(* A dictionary is a function from its keys to its values; reading a key   *)
(* outside its domain raises KeyError.                                     *)
(***************************************************************************)
MaxSlices == 3

None == "None"

Terminated == runPc \in {"returned", "raised"}

\* A call that was made: the function, the line of the return statement it
\* left through (0: its last line), the number of values it returned, and
\* for the peak finders what the peak list held.
Call(fn, line, values, result) ==
    [fn |-> fn, line |-> line, values |-> values, result |-> result]

\* The lists a custom slice_offset string or a slice-timing file can hold.
OffsetLists == UNION {[1 .. m -> 0 .. 1] : m \in 1 .. MaxSlices}

\* The patterns, and two names of slice-timing files: the second has "-" as
\* its fourth character.
SlicePatterns ==
    {"alt+z", "alt-z", "seq+z", "seq-z", "custom", "offsets.1D", "tim-ing.1D"}

\* slice_pattern[0:3]
PatternHead(pattern) ==
    CASE pattern \in {"alt+z", "alt-z"} -> "alt"
      [] pattern \in {"seq+z", "seq-z"} -> "seq"
      [] pattern = "custom" -> "cus"
      [] OTHER -> "off"

\* slice_pattern[3]
PatternSign(pattern) ==
    CASE pattern \in {"alt-z", "seq-z", "tim-ing.1D"} -> "-"
      [] pattern \in {"alt+z", "seq+z"} -> "+"
      [] pattern = "custom" -> "t"
      [] OTHER -> "s"

\* A list left in the order it was built in.
ReverseKept(list) == list

\* list.reverse()
Reverse(list) == [i \in 1 .. Len(list) |-> list[Len(list) + 1 - i]]

\* The odd slices acquired before the even ones.
AltOffsetsOddFirst(N) ==
    [i \in 1 .. N |-> IF (i - 1) % 2 = 1 THEN (i - 2) \div 2
                      ELSE (N \div 2) + ((i - 1) \div 2)]

\* lines 192-197: acquisition order of the even slices, then of the odd ones,
\* in units of dtt = volume_tr / number_of_slices.
AltOffsets(N) ==
    [i \in 1 .. N |-> IF (i - 1) % 2 = 0 THEN (i - 1) \div 2
                      ELSE ((N + 1) \div 2) + ((i - 2) \div 2)]

\* The first slice acquired one step late.
SeqOffsetsFromOne(N) == [i \in 1 .. N |-> i]

\* lines 199-201, in units of dtt.
SeqOffsets(N) == [i \in 1 .. N |-> i - 1]

\* The slice-timing files the file branch can meet.
SliceFiles ==
    {[exists |-> FALSE, list |-> <<>>]}
        \cup {[exists |-> TRUE, list |-> l] : l \in OffsetLists}

SliceResult(exit, kind, list, read) ==
    [exit |-> exit, kind |-> kind, list |-> list, slice_file_list |-> read]

\* getSliceOffsets: exit is "return", or the exception that leaves it; kind
\* is "list" or "None" (the bare return of lines 213 and 217).
getSliceOffsets(offsetDict, file) ==
    LET N == offsetDict.number_of_slices
        pattern == offsetDict.slice_pattern
        given == offsetDict.slice_offset
        \* lines 241-245
        reversed(l, slice_file_list) ==
            IF PatternSign(pattern) = "-" /\ slice_file_list = <<>>
            THEN Reverse(l)
            ELSE l
    IN  CASE PatternHead(pattern) = "alt" ->
                 SliceResult("return", "list", reversed(AltOffsets(N), <<>>), <<>>)
          [] PatternHead(pattern) = "seq" ->
                 SliceResult("return", "list", reversed(SeqOffsets(N), <<>>), <<>>)
          [] pattern = "custom" /\ given.kind \in {"str", "badstr"} ->
                 IF given.kind = "badstr" \/ Len(given.list) # N
                 THEN SliceResult("return", "None", <<>>, <<>>)
                 ELSE SliceResult("return", "list", reversed(given.list, <<>>), <<>>)
          [] OTHER ->
                 IF ~file.exists
                 THEN SliceResult("FileNotFoundError", "None", <<>>, <<>>)
                 ELSE IF Len(file.list) # N
                      THEN SliceResult("SystemExit", "None", <<>>, file.list)
                      ELSE SliceResult("return", "list",
                                       reversed(file.list, file.list), file.list)

InputResult(exc, rf, rd, cf, cd) ==
    [exception |-> exc, respiration_file |-> rf, phys_resp_dat |-> rd,
     cardiac_file |-> cf, phys_cardiac_dat |-> cd]

\* getInputFileParameters, lines 1062-1145.  The physio file, when it is
\* read, is taken to hold a respiratory and a cardiac column.
getInputFileParameters(respirationInfo, cardiacInfo, phys_file, phys_json_arg, respiration_out, cardiac_out, rvt_out) ==
    LET failed(exc) == InputResult(exc, None, <<>>, None, <<>>)
    IN  IF phys_file # None
        THEN IF "respiration_file" \notin DOMAIN respirationInfo
             THEN failed("KeyError")
             ELSE IF respirationInfo["respiration_file"] # None
             THEN failed("ValueError")
             ELSE IF "cardiac_file" \notin DOMAIN cardiacInfo
             THEN failed("KeyError")
             ELSE IF cardiacInfo["cardiac_file"] # None
             THEN failed("ValueError")
             ELSE IF phys_json_arg = None
             THEN failed("TypeError")
             ELSE InputResult("none",
                      None,
                      IF respiration_out # 0 \/ rvt_out # 0 THEN <<1>> ELSE <<>>,
                      None,
                      IF cardiac_out # 0 THEN <<1>> ELSE <<>>)
        ELSE IF "respiration_file" \notin DOMAIN respirationInfo
             THEN failed("KeyError")
             ELSE IF "cardiac_file" \notin DOMAIN cardiacInfo
             THEN failed("KeyError")
             ELSE InputResult("none",
                      respirationInfo["respiration_file"], <<>>,
                      cardiacInfo["cardiac_file"], <<>>)

\* The slice count of the examples of the help text.
HelpSlices == 10

\* The repetition times retro_ts is called with, in seconds.
VolumeTRs == {2, 3}

\* The arguments retro_ts is called with (the command line converts
\* number_of_slices, volume_tr and num_time_pts before the call).
RetroArguments ==
    [resp_file : {None, "resp.dat"},
     card_file : {None, "card.dat"},
     phys_fs : {0, 50},
     phys_file : {None, "physio.tsv"},
     phys_json : {None, "physio.json"},
     number_of_slices : (1 .. MaxSlices) \cup {HelpSlices},
     volume_tr : VolumeTRs,
     slice_pattern : SlicePatterns,
     slice_offset : {[kind |-> "default", list |-> <<>>],
                     [kind |-> "badstr", list |-> <<>>]}
                        \cup {[kind |-> "str", list |-> l] : l \in OffsetLists},
     OutDir : {"out"},
     resp_out : {1},
     card_out : {1},
     rvt_out : {0}]

\* lines 373-375: the guard of the first check.
FrequencyUnknownNeverReported(phys_fs, phys_json) == FALSE

FrequencyUnknown(phys_fs, phys_json) == phys_fs = 0 /\ phys_json = None

Raise(exc) ==
    /\ exception' = exc
    /\ runPc' = "raised"
    /\ UNCHANGED return_status

Return(code) ==
    /\ return_status' = code
    /\ runPc' = "returned"
    /\ UNCHANGED exception

Continue(pc) ==
    /\ runPc' = pc
    /\ UNCHANGED <<return_status, exception>>

\* lines 373-375
RetroCheckFrequency ==
    /\ entry = "retro_ts"
    /\ runPc = "check_frequency"
    /\ IF FrequencyUnknown(callArgs.phys_fs, callArgs.phys_json)
       THEN Return(1)
       ELSE Continue("output_directory")
    /\ UNCHANGED <<entry, callArgs, parameters, resp_info, cardiac_info, outDir,
                   argsFileWritten, OutDir, slice_offset, called, cardiacResult,
                   respiratoryResult, columnNames, physiologicalNoiseComponents,
                   cardVars, respVars, nimlVars, peakVars, readVars>>

\* lines 378-388: os.mkdir fails on an existing directory.
RetroOutputDirectory ==
    /\ entry = "retro_ts"
    /\ runPc = "output_directory"
    /\ IF outDir = "exists"
       THEN /\ Raise("FileExistsError")
            /\ UNCHANGED <<outDir, argsFileWritten, OutDir, called>>
       ELSE /\ outDir' = "created"
            /\ argsFileWritten' = TRUE
            /\ OutDir' = callArgs.OutDir
            /\ called' = Append(called, Call("setOutputDirectory", 0, 0, ""))
            /\ Continue("slice_offsets")
    /\ UNCHANGED <<entry, callArgs, parameters, resp_info, cardiac_info,
                   slice_offset, cardiacResult, respiratoryResult, columnNames,
                   physiologicalNoiseComponents, cardVars, respVars, nimlVars, peakVars, readVars>>

\* lines 390-405
RetroSliceOffsets ==
    /\ entry = "retro_ts"
    /\ runPc = "slice_offsets"
    /\ \E file \in SliceFiles :
          LET given == IF callArgs.slice_offset.kind = "default"
                       THEN [kind |-> "zeros", list |-> <<>>]
                       ELSE callArgs.slice_offset
              offsetDict == [slice_offset |-> given,
                             volume_tr |-> callArgs.volume_tr,
                             number_of_slices |-> callArgs.number_of_slices,
                             slice_pattern |-> callArgs.slice_pattern]
              result == getSliceOffsets(offsetDict, file)
          IN  /\ called' = Append(called, Call("getSliceOffsets", 0, 1, ""))
              /\ IF result.exit = "return"
                 THEN /\ slice_offset' = [kind |-> result.kind, list |-> result.list,
                                         slice_file_list |-> result.slice_file_list]
                      /\ Continue("input_parameters")
                 ELSE /\ Raise(result.exit)
                      /\ UNCHANGED slice_offset
    /\ UNCHANGED <<entry, callArgs, parameters, resp_info, cardiac_info, outDir,
                   argsFileWritten, OutDir, cardiacResult, respiratoryResult,
                   columnNames, physiologicalNoiseComponents, cardVars, respVars, nimlVars, peakVars, readVars>>

\* lines 410-422.  No run gets past this call: retro_ts stores the file
\* names under "resp_file" and "card_file", getInputFileParameters reads
\* "respiration_file" and "cardiac_file".
RetroInputParameters ==
    /\ entry = "retro_ts"
    /\ runPc = "input_parameters"
    /\ LET ri == ("resp_file" :> callArgs.resp_file) @@ ("phys_fs" :> callArgs.phys_fs)
           ci == ("phys_fs" :> callArgs.phys_fs) @@ ("card_file" :> callArgs.card_file)
           result == getInputFileParameters(ri, ci, callArgs.phys_file,
                         callArgs.phys_json, callArgs.resp_out,
                         callArgs.card_out, callArgs.rvt_out)
       IN  /\ resp_info' = ri
           /\ cardiac_info' = ci
           /\ called' = Append(called, Call("getInputFileParameters", 0, 4, ""))
           /\ IF result.exception # "none"
              THEN Raise(result.exception)
              ELSE Continue("set_parameters")
    /\ UNCHANGED <<entry, callArgs, parameters, outDir, argsFileWritten, OutDir,
                   slice_offset, cardiacResult, respiratoryResult, columnNames,
                   physiologicalNoiseComponents, cardVars, respVars, nimlVars, peakVars, readVars>>

\* The dictionaries runAnalysis is called with: every key the library reads
\* is present.
LibraryParameters ==
    {("-cardFile" :> cf) @@ ("-respFile" :> rf) @@ ("phys_cardiac_dat" :> <<>>)
        @@ ("phys_resp_dat" :> <<>>) @@ ("phys_fs" :> 50) @@ ("-aby" :> aby)
        @@ ("-niml" :> niml) @@ ("-s" :> n) :
        cf \in {None, "card.dat"}, rf \in {None, "resp.dat"},
        aby \in BOOLEAN, niml \in BOOLEAN, n \in 1 .. MaxSlices}

PeaksExit(line, values, peaks, troughs) ==
    [line |-> line, values |-> values, peaks |-> peaks, troughs |-> troughs]

\* The return statements of getCardiacPeaks: the number of values returned
\* and what the peak list holds ("adjacent": at least two peaks, the last
\* two on adjacent samples).
CardiacPeaksExits ==
    {PeaksExit(158, 1, "none", "none"), PeaksExit(180, 2, "none", "none"),
     PeaksExit(186, 2, "none", "none"), PeaksExit(201, 2, "none", "none")}
        \cup {PeaksExit(257, 2, p, "none") : p \in {"none", "one", "adjacent", "many"}}

\* The return statements of getRespiratoryPeaks.
RespiratoryPeaksExits ==
    {PeaksExit(298, 1, "none", "none"), PeaksExit(319, 3, "none", "none"),
     PeaksExit(327, 3, "none", "none"), PeaksExit(381, 3, "none", "none")}
        \cup {PeaksExit(437, 3, p, t) : p \in {"none", "many"}, t \in {"none", "many"}}

\* What determineCardiacPhases does with a non-empty peak list: peaks[1]
\* (line 479) fails on a single peak, line 489 on adjacent last peaks.
CardiacPhasesOutcomes(peaks) ==
    IF peaks \in {"one", "adjacent"} THEN {"IndexError"} ELSE {"phases"}

\* What determineRespiratoryPhases does: respiratory_troughs[0] (line 623)
\* fails without troughs, round() fails on a segment whose Rmax is 0.
RespiratoryPhasesOutcomes(troughs) ==
    IF troughs = "none" THEN {"IndexError"}
    ELSE {"phases", "ValueError", "OverflowError"}

\* lines 834-841: readArray opens parameters[key]; the sums of getACoeffs
\* index the phases by the length of the file; getBCoeffs reads the
\* undefined global M.
CoefficientFailures(cardFile, respFile) ==
    IF cardFile = None THEN {"TypeError"}
    ELSE IF respFile = None THEN {"IndexError", "TypeError"}
    ELSE {"IndexError", "NameError"}

\* lines 859-872
Labels(numSections, type) ==
    [k \in 1 .. 4 * numSections |->
        [s |-> (k - 1) \div 4, type |-> type, r |-> (k - 1) % 4]]

ColumnNames(numSections, len_resp, len_card) ==
    (IF len_resp THEN Labels(numSections, "Resp") ELSE <<>>)
        \o (IF len_card THEN Labels(numSections, "Card") ELSE <<>>)

ReturnComponents(value) ==
    /\ physiologicalNoiseComponents' = value
    /\ Continue("have_components")

\* line 1003
RunAnalysisCall ==
    /\ entry = "runAnalysis"
    /\ runPc = "runAnalysis"
    /\ called' = Append(called, Call("getPhysiologicalNoiseComponents", 0, 1, ""))
    /\ Continue("cardiac")
    /\ UNCHANGED <<entry, callArgs, parameters, resp_info, cardiac_info, outDir,
                   argsFileWritten, OutDir, slice_offset, cardiacResult,
                   respiratoryResult, columnNames, physiologicalNoiseComponents,
                   cardVars, respVars, nimlVars, peakVars, readVars>>

\* lines 794-812
NoiseCardiac ==
    /\ runPc = "cardiac"
    /\ IF parameters["-cardFile"] # None \/ Len(parameters["phys_cardiac_dat"]) > 0
       THEN \E read \in {"data", "[]"}, exit \in CardiacPeaksExits :
               IF read = "[]"
               THEN /\ called' = Append(called, Call("readRawInputData", 962, 1, ""))
                    /\ cardiacResult' = "unreadable"
                    /\ ReturnComponents("[]")
               ELSE /\ called' = called \o <<Call("readRawInputData", 0, 1, ""),
                                   Call("getCardiacPeaks", exit.line, exit.values, exit.peaks)>>
                                  \o (IF exit.values = 2 /\ exit.peaks # "none"
                                      THEN <<Call("determineCardiacPhases", 0, 1, exit.peaks)>>
                                      ELSE <<>>)
                    /\ IF exit.values # 2
                       THEN /\ cardiacResult' = "failed"
                            /\ Raise("ValueError")
                            /\ UNCHANGED physiologicalNoiseComponents
                       ELSE IF exit.peaks = "none"
                       THEN /\ cardiacResult' = "empty"
                            /\ ReturnComponents("[]")
                       ELSE \E outcome \in CardiacPhasesOutcomes(exit.peaks) :
                               IF outcome = "phases"
                               THEN /\ cardiacResult' = "phases"
                                    /\ Continue("respiratory")
                                    /\ UNCHANGED physiologicalNoiseComponents
                               ELSE /\ cardiacResult' = "failed"
                                    /\ Raise(outcome)
                                    /\ UNCHANGED physiologicalNoiseComponents
       ELSE /\ cardiacResult' = "absent"
            /\ Continue("respiratory")
            /\ UNCHANGED <<called, physiologicalNoiseComponents>>
    /\ UNCHANGED <<entry, callArgs, parameters, resp_info, cardiac_info, outDir,
                   argsFileWritten, OutDir, slice_offset, respiratoryResult,
                   columnNames, cardVars, respVars, nimlVars, peakVars, readVars>>

\* lines 814-832
NoiseRespiratory ==
    /\ runPc = "respiratory"
    /\ IF parameters["-respFile"] # None \/ Len(parameters["phys_resp_dat"]) > 0
       THEN \E read \in {"data", "[]"}, exit \in RespiratoryPeaksExits :
               IF read = "[]"
               THEN /\ called' = Append(called, Call("readRawInputData", 962, 1, ""))
                    /\ respiratoryResult' = "unreadable"
                    /\ ReturnComponents("[]")
               ELSE /\ called' = called \o <<Call("readRawInputData", 0, 1, ""),
                                   Call("getRespiratoryPeaks", exit.line, exit.values, exit.peaks)>>
                                  \o (IF exit.values = 3 /\ exit.peaks # "none"
                                      THEN <<Call("determineRespiratoryPhases", 0, 1, exit.peaks)>>
                                      ELSE <<>>)
                    /\ IF exit.values # 3
                       THEN /\ respiratoryResult' = "failed"
                            /\ Raise("ValueError")
                            /\ UNCHANGED physiologicalNoiseComponents
                       ELSE IF exit.peaks = "none"
                       THEN /\ respiratoryResult' = "empty"
                            /\ ReturnComponents("[]")
                       ELSE \E outcome \in RespiratoryPhasesOutcomes(exit.troughs) :
                               IF outcome = "phases"
                               THEN /\ respiratoryResult' = "phases"
                                    /\ Continue("coefficients")
                                    /\ UNCHANGED physiologicalNoiseComponents
                               ELSE /\ respiratoryResult' = "failed"
                                    /\ Raise(outcome)
                                    /\ UNCHANGED physiologicalNoiseComponents
       ELSE /\ respiratoryResult' = "absent"
            /\ Continue("coefficients")
            /\ UNCHANGED <<called, physiologicalNoiseComponents>>
    /\ UNCHANGED <<entry, callArgs, parameters, resp_info, cardiac_info, outDir,
                   argsFileWritten, OutDir, slice_offset, cardiacResult,
                   columnNames, cardVars, respVars, nimlVars, peakVars, readVars>>

\* lines 834-851
NoiseCoefficients ==
    /\ runPc = "coefficients"
    /\ IF parameters["-aby"]
       THEN \E exc \in CoefficientFailures(parameters["-cardFile"],
                                           parameters["-respFile"]) :
               /\ called' = Append(called, Call("getACoeffs", 0, 1, ""))
               /\ Raise(exc)
       ELSE /\ Continue("table")
            /\ UNCHANGED called
    /\ UNCHANGED <<entry, callArgs, parameters, resp_info, cardiac_info, outDir,
                   argsFileWritten, OutDir, slice_offset, cardiacResult,
                   respiratoryResult, columnNames, physiologicalNoiseComponents,
                   cardVars, respVars, nimlVars, peakVars, readVars>>

\* lines 853-921, for phase signals no shorter than the number of slices.
\* T is unbound when neither signal is present (line 884).
NoiseTable ==
    /\ runPc = "table"
    /\ LET len_resp == respiratoryResult = "phases"
           len_card == cardiacResult = "phases"
       IN  /\ columnNames' = ColumnNames(parameters["-s"], len_resp, len_card)
           /\ IF ~len_resp /\ ~len_card
              THEN /\ Raise("UnboundLocalError")
                   /\ UNCHANGED physiologicalNoiseComponents
              ELSE ReturnComponents("dict")
    /\ UNCHANGED <<entry, callArgs, parameters, resp_info, cardiac_info, outDir,
                   argsFileWritten, OutDir, slice_offset, called, cardiacResult,
                   respiratoryResult, cardVars, respVars, nimlVars, peakVars, readVars>>

\* lines 1004-1010: the dictionary returned has no to_csv.
RunAnalysisFinish ==
    /\ entry = "runAnalysis"
    /\ runPc = "have_components"
    /\ IF physiologicalNoiseComponents = "[]"
       THEN Return(1)
       ELSE IF parameters["-niml"]
       THEN Return(0)
       ELSE Raise("AttributeError")
    /\ UNCHANGED <<entry, callArgs, parameters, resp_info, cardiac_info, outDir,
                   argsFileWritten, OutDir, slice_offset, called, cardiacResult,
                   respiratoryResult, columnNames, physiologicalNoiseComponents,
                   cardVars, respVars, nimlVars, peakVars, readVars>>

\* getPrefix, lines 495-503, on the file names of the model: the text
\* after the first "/" or ":" and before the first ".".
getPrefix(fileName) ==
    CASE fileName = "in/card.dat" -> "card"
      [] fileName = "resp.dat" -> "resp"
      [] fileName = "physio.json" -> "physio"
      [] OTHER -> fileName

\* retro_ts lines 425-441 as far as lines 443-451 read them: the prefix and
\* JSON arguments, and the two file names getInputFileParameters returns.
PrefixArguments == [prefix : {None, "fred"}, phys_json : {None, "physio.json"}]

PrefixParameters ==
    {("cardFile" :> cf) @@ ("respFile" :> rf) :
        cf \in {None, "in/card.dat"}, rf \in {None, "resp.dat"}}

\* lines 443-451.  The statements are run from the state a return of
\* getInputFileParameters leaves; the second elif repeats the test of the
\* first.
RetroSetPrefix ==
    /\ entry = "retro_ts:443"
    /\ runPc = "set_prefix"
    /\ LET set(value) ==
               /\ parameters' = parameters @@ ("prefix" :> value)
               /\ Continue("second_check")
       IN  IF callArgs.prefix # None THEN set(callArgs.prefix)
           ELSE IF callArgs.phys_json # None THEN set(getPrefix(callArgs.phys_json))
           ELSE IF parameters["cardFile"] # None
           THEN set(getPrefix(parameters["cardFile"]))
           ELSE IF parameters["cardFile"] # None
           THEN set(getPrefix(parameters["respFile"]))
           ELSE /\ Return(1)
                /\ UNCHANGED parameters
    /\ UNCHANGED <<entry, callArgs, resp_info, cardiac_info, outDir,
                   argsFileWritten, OutDir, slice_offset, called, cardiacResult,
                   respiratoryResult, columnNames, physiologicalNoiseComponents,
                   cardVars, respVars, nimlVars, peakVars, readVars>>

RunInit ==
    /\ CardIdle
    /\ RespIdle
    /\ NimlIdle
    /\ PeakIdle
    /\ ReadIdle
    /\ return_status = -1
    /\ exception = "none"
    /\ resp_info = <<>>
    /\ cardiac_info = <<>>
    /\ argsFileWritten = FALSE
    /\ OutDir = "."
    /\ called = <<>>
    /\ cardiacResult = "not run"
    /\ respiratoryResult = "not run"
    /\ columnNames = <<>>
    /\ physiologicalNoiseComponents = "unset"
    /\ \/ /\ entry = "retro_ts"
          /\ runPc = "check_frequency"
          /\ callArgs \in RetroArguments
          /\ parameters = <<>>
          /\ outDir \in {"absent", "exists"}
          /\ slice_offset = callArgs.slice_offset
       \/ /\ entry = "runAnalysis"
          /\ runPc = "runAnalysis"
          /\ callArgs = <<>>
          /\ parameters \in LibraryParameters
          /\ outDir = "absent"
          /\ slice_offset = [kind |-> "default", list |-> <<>>]
       \/ /\ entry = "retro_ts:443"
          /\ runPc = "set_prefix"
          /\ callArgs \in PrefixArguments
          /\ parameters \in PrefixParameters
          /\ outDir = "created"
          /\ slice_offset = [kind |-> "default", list |-> <<>>]

RunNext ==
    \/ RetroCheckFrequency
    \/ RetroOutputDirectory
    \/ RetroSliceOffsets
    \/ RetroInputParameters
    \/ RetroSetPrefix
    \/ RunAnalysisCall
    \/ NoiseCardiac
    \/ NoiseRespiratory
    \/ NoiseCoefficients
    \/ NoiseTable
    \/ RunAnalysisFinish

SpecRun == RunInit /\ [][RunNext]_vars

(***************************************************************************)
(* Properties of retro_ts and runAnalysis                                  *)
(***************************************************************************)
PeakFinders == {"getCardiacPeaks", "getRespiratoryPeaks"}

\* The number of values the caller unpacks (lines 805 and 823-824).
Unpacked(fn) == IF fn = "getCardiacPeaks" THEN 2 ELSE 3

\* Some peak finder left with an empty peak list.
PeakStageEmpty ==
    \E k \in 1 .. Len(called) :
        called[k].fn \in PeakFinders /\ called[k].result = "none"

FrequencyMissing == entry = "retro_ts" /\ callArgs.phys_fs = 0

\* Failures of the file system rather than of the signals: the output
\* directory exists already, the slice-timing file is missing or too short.
EnvironmentFailures == {"FileExistsError", "FileNotFoundError", "SystemExit"}

\* C8: when the cardiac signal yields phases and respiratory peak detection
\* comes back empty, the run ends with status 0 and the table holds exactly
\* the cardiac columns; a run ends with status 1 only if no signal yielded
\* phases.
C8_SurvivingSignalKept ==
    /\ (Terminated /\ cardiacResult = "phases" /\ respiratoryResult = "empty")
           => /\ return_status = 0
              /\ columnNames = Labels(parameters["-s"], "Card")
    /\ (Terminated /\ return_status = 1)
           => cardiacResult # "phases" /\ respiratoryResult # "phases"

\* C9: a run in which the sampling frequency is missing or a peak finder
\* comes back empty, and which the file system does not stop, ends by
\* returning a non-zero status, with no exception; and every value a peak
\* finder returns has as many parts as its caller unpacks.
C9_FailuresReturnStatus ==
    /\ (Terminated /\ (FrequencyMissing \/ PeakStageEmpty)
            /\ exception \notin EnvironmentFailures)
           => exception = "none" /\ return_status > 0
    /\ \A k \in 1 .. Len(called) :
           called[k].fn \in PeakFinders => called[k].values = Unpacked(called[k].fn)

\* C10: a call of retro_ts with neither phys_fs nor phys_json only ever
\* returns 1, and nothing has happened by then: no output directory, no
\* arguments file, the library's OutDir untouched, no function invoked.
C10_EarlyReturnBeforeEffects ==
    (entry = "retro_ts" /\ callArgs.phys_fs = 0 /\ callArgs.phys_json = None)
        => /\ runPc \in {"check_frequency", "returned"}
           /\ runPc = "returned" => return_status = 1
           /\ exception = "none"
           /\ outDir # "created"
           /\ argsFileWritten = FALSE
           /\ OutDir = "."
           /\ called = <<>>
           /\ slice_offset = callArgs.slice_offset
           /\ cardiacResult = "not run"
           /\ respiratoryResult = "not run"

C10_Witness ==
    /\ entry = "retro_ts"
    /\ callArgs.phys_fs = 0
    /\ callArgs.phys_json = None
    /\ callArgs.resp_file # None
    /\ callArgs.card_file # None
    /\ runPc = "returned"
    /\ return_status = 1

\* The function fn has been left (by a return or by an exception).
Invoked(fn) == \E k \in 1 .. Len(called) : called[k].fn = fn

\* retro_ts was given the pattern 'custom' and a list of the wrong length.
CustomMismatch ==
    /\ entry = "retro_ts"
    /\ callArgs.slice_pattern = "custom"
    /\ callArgs.slice_offset.kind = "str"
    /\ Len(callArgs.slice_offset.list) # callArgs.number_of_slices

\* C11: once getSliceOffsets has rejected a custom list of the wrong length,
\* retro_ts has returned a non-zero status and has called nothing after
\* getSliceOffsets: no input reading, no signal processing, no output.
C11_CustomMismatchFails ==
    (CustomMismatch /\ Invoked("getSliceOffsets"))
        => /\ runPc = "returned"
           /\ return_status > 0
           /\ called[Len(called)].fn = "getSliceOffsets"

\* retro_ts was called with this pattern and getSliceOffsets has returned a
\* list for it.
Generated(pattern) ==
    /\ entry = "retro_ts"
    /\ callArgs.slice_pattern = pattern
    /\ Invoked("getSliceOffsets")
    /\ slice_offset.kind = "list"

\* Slice i (0-based) of the list returned, times number_of_slices, in
\* seconds: the list holds multiples of dtt = volume_tr / number_of_slices.
ScaledOffset(i) == slice_offset.list[i + 1] * callArgs.volume_tr

\* C19: for 'seq+z' with N slices and repetition time T the list returned
\* has N offsets, the offset of slice i is i*T/N, and so the offsets start
\* at 0, rise strictly by the same step T/N and stay below T.
C19_SeqOffsets ==
    Generated("seq+z")
        => LET N == callArgs.number_of_slices
               T == callArgs.volume_tr
           IN  /\ Len(slice_offset.list) = N
               /\ \A i \in 0 .. N - 1 :
                     /\ ScaledOffset(i) = i * T
                     /\ ScaledOffset(i) >= 0
                     /\ ScaledOffset(i) < N * T
               /\ ScaledOffset(0) = 0
               /\ \A i \in 0 .. N - 2 :
                     /\ ScaledOffset(i) < ScaledOffset(i + 1)
                     /\ ScaledOffset(i + 1) - ScaledOffset(i) = T

\* A 'seq+z' run of the largest slice count has its offsets.
C19_Witness ==
    /\ Generated("seq+z")
    /\ callArgs.number_of_slices = MaxSlices
    /\ callArgs.volume_tr = 3
    /\ slice_offset.list = SeqOffsets(MaxSlices)

\* C20: for 'alt+z' with N slices and repetition time T the offsets
\* returned are a permutation of {k*T/N : 0 <= k < N}; the even slices hold
\* the first times in increasing order, the odd slices the following times
\* in increasing order, so every even slice precedes every odd slice.
C20_AltOffsets ==
    Generated("alt+z")
        => LET N == callArgs.number_of_slices
               T == callArgs.volume_tr
               evens == {i \in 0 .. N - 1 : i % 2 = 0}
               odds == {i \in 0 .. N - 1 : i % 2 = 1}
           IN  /\ Len(slice_offset.list) = N
               /\ {ScaledOffset(i) : i \in 0 .. N - 1} = {k * T : k \in 0 .. N - 1}
               /\ \A i \in evens : ScaledOffset(i) = (i \div 2) * T
               /\ \A i \in odds :
                     ScaledOffset(i) = (Cardinality(evens) + (i \div 2)) * T
               /\ \A i \in evens : \A j \in odds : ScaledOffset(i) < ScaledOffset(j)

\* An 'alt+z' run with two even slices and one odd slice has its offsets:
\* slice 0 at 0, slice 2 at T/3, slice 1 at 2T/3.
C20_Witness ==
    /\ Generated("alt+z")
    /\ callArgs.number_of_slices = 3
    /\ callArgs.volume_tr = 2
    /\ slice_offset.list = <<0, 2, 1>>

\* The offset list getSliceOffsets returns for this pattern and the slice
\* count and repetition time of the call.
OffsetsFor(pattern) ==
    getSliceOffsets([slice_offset |-> [kind |-> "zeros", list |-> <<>>],
                     volume_tr |-> callArgs.volume_tr,
                     number_of_slices |-> callArgs.number_of_slices,
                     slice_pattern |-> pattern],
                    [exists |-> FALSE, list |-> <<>>]).list

\* The custom list of the help text, times its 10 slices.
HelpOffsets == <<18, 8, 16, 6, 14, 4, 12, 2, 10, 0>>

\* C21: for 'seq-z' and 'alt-z' slice i of the list returned holds the
\* offset that 'seq+z' and 'alt+z' give slice N-1-i for the same N and T;
\* 'alt-z' with 10 slices and TR 2 gives the custom list of the help text;
\* a custom list and a list read from a timing file are returned in the
\* order they were given in, whatever the fourth character of the pattern.
C21_MinusReverses ==
    LET N == callArgs.number_of_slices
    IN  /\ \A order \in {"seq", "alt"} :
              Generated(order \o "-z")
                  => /\ Len(slice_offset.list) = N
                     /\ \A i \in 0 .. N - 1 :
                           slice_offset.list[i + 1] = OffsetsFor(order \o "+z")[N - i]
        /\ (Generated("alt-z") /\ N = HelpSlices /\ callArgs.volume_tr = 2)
              => \A i \in 0 .. N - 1 : ScaledOffset(i) = HelpOffsets[i + 1]
        /\ (Generated("custom") /\ callArgs.slice_offset.kind = "str")
              => slice_offset.list = callArgs.slice_offset.list
        /\ \A name \in SlicePatterns :
              (Generated(name) /\ slice_offset.slice_file_list # <<>>)
                  => slice_offset.list = slice_offset.slice_file_list

\* The 'alt-z' run of the help text has its offsets.
C21_Witness ==
    /\ Generated("alt-z")
    /\ callArgs.number_of_slices = HelpSlices
    /\ callArgs.volume_tr = 2
    /\ slice_offset.list = <<9, 4, 8, 3, 7, 2, 6, 1, 5, 0>>

PhaseEstimators == {"determineCardiacPhases", "determineRespiratoryPhases"}

InputKeysRead == {"respiration_file", "cardiac_file", "phys_fs"}

\* retro_ts lines 425-471: the keys of parameters at the two library calls.
RetroParameterKeys ==
    {"cardFile", "respFile", "s", "TR", "StartTime", "num_time_pts", "phys_fs",
     "abt", "aby", "niml", "phys_resp_dat", "phys_card_dat", "dev", "verbose",
     "rvt_out", "slice_offset", "prefix", "show_graphs", "save_graphs",
     "font_size", "OutDir"}

\* getPhysiologicalNoiseComponents, lines 790-860: the keys it reads from
\* parameters.
NoiseKeysRead ==
    {"phys_fs", "-cardFile", "phys_cardiac_dat", "-respFile", "phys_resp_dat",
     "-aby", "-s"}

\* ouputInNimlFormat lines 1151-1154 and phase_estimator lines 1276, 1285:
\* the keys they read from parameters.
NimlKeysRead == {"rvt_out", "-s", "prefix", "slice_offset", "-TR"}

\* getPhysiologicalNoiseComponents lines 918-921: the keys of its result.
ResultKeys == {"respiratory_phases", "cardiac_phases"}

\* retro_ts line 474: the key it reads from the result.
ResultKeysRead == {"resp_phases"}

\* C28: once retro_ts has called getInputFileParameters, no KeyError has
\* left the call, and every key a library function reads is a key retro_ts
\* has defined: the keys of the two information dictionaries, the keys of
\* parameters read by getPhysiologicalNoiseComponents and by
\* ouputInNimlFormat / phase_estimator, and the result key retro_ts reads.
C28_KeysDefined ==
    (entry = "retro_ts" /\ Invoked("getInputFileParameters"))
        => /\ exception # "KeyError"
           /\ InputKeysRead \subseteq (DOMAIN resp_info \cup DOMAIN cardiac_info)
           /\ NoiseKeysRead \subseteq RetroParameterKeys
           /\ NimlKeysRead \subseteq RetroParameterKeys
           /\ ResultKeysRead \subseteq ResultKeys

TableWriters == {"ouputInNimlFormat", "to_csv"}

\* C18: a run that has returned status 0 has written the regressor table,
\* in NIML form when the niml switch is set and in tabular CSV form when it
\* is not.
C18_SuccessWritesTable ==
    (runPc = "returned" /\ return_status = 0)
        => /\ \E k \in 1 .. Len(called) : called[k].fn \in TableWriters
           /\ entry = "runAnalysis"
                => IF parameters["-niml"]
                   THEN Invoked("ouputInNimlFormat")
                   ELSE Invoked("to_csv")

(***************************************************************************)
(* ouputInNimlFormat and phase_estimator (lib_retroicor.py).               *)
(*                                                                         *)
(* Times are integers, in ticks of 1/200 s; a slice offset is a multiple   *)
(* of volume_tr / (length of the offset list), so the times that involve   *)
(* an offset are compared after scaling by that length.  The arithmetic    *)
(* is exact.                                                               *)
(***************************************************************************)
TicksPerSecond == 200

\* line 1273: numTimeSteps = round(24199)
numTimeSteps == 24199

\* line 1275: phasee["number_of_slices"] = 33
phaseeSlices == 33

\* line 1278: phasee["t"][i] = 2.0000e-02 * i, in ticks
SampleTick == 4

\* max(phasee["t"])
MaxT == SampleTick * (numTimeSteps - 1)

\* lines 1286-1288: the stop value of np.arange (volume_tr an even number
\* of ticks, below 2 * max(t)).
GridStop(volume_tr) == MaxT - volume_tr \div 2

\* lines 1286-1288: np.arange(0, stop, volume_tr), stop excluded.
GridBase(volume_tr) ==
    [k \in 1 .. (GridStop(volume_tr) + volume_tr - 1) \div volume_tr |->
        (k - 1) * volume_tr]

GridAppendsOnMultiple(volume_tr) == MaxT % volume_tr = 0

\* line 1289
GridAppends(volume_tr) == GridStop(volume_tr) % volume_tr = 0

\* lines 1286-1293
TimeSeriesTime(volume_tr) ==
    LET base == GridBase(volume_tr)
    IN  IF GridAppends(volume_tr)
        THEN Append(base, base[Len(base)] + volume_tr)
        ELSE base

\* np.argmin(abs(x - step * [0, 1, ..., n-1])): the first index of the
\* sample nearest to x (x >= 0), the lower one on a tie.
NearestIndex(x, step, n) == Min2((2 * x + step - 1) \div (2 * step), n - 1)

\* line 1303: the sample of phasee["t"] nearest to
\* time_series_time[i] + slice_offset[i_slice], times scaled by scale.
Imin(instant, offset, volume_tr, scale) ==
    NearestIndex(scale * instant + offset * volume_tr, scale * SampleTick,
                 numTimeSteps)

\* phase_estimator, lines 1272-1319, for a phase signal of phaseLen samples:
\* phase_slice holds, for instant k and slice s, the index imin whose phase
\* is used.  slice_offset[i_slice] fails on None (TypeError) and beyond the
\* list (IndexError); phase[imin] fails beyond the signal (IndexError).  The
\* largest imin of a slice is the one of the last instant.
phase_estimator(phaseLen, offsets, volume_tr) ==
    LET tst == TimeSeriesTime(volume_tr)
        scale == Len(offsets.list)
        imin(k, sl) == Imin(tst[k], offsets.list[sl], volume_tr, scale)
        exc == IF offsets.kind = "None" THEN "TypeError"
               ELSE IF Len(offsets.list) < phaseeSlices THEN "IndexError"
               ELSE IF \E sl \in 1 .. phaseeSlices : imin(Len(tst), sl) >= phaseLen
               THEN "IndexError"
               ELSE "none"
    IN  [exception |-> exc,
         number_of_slices |-> phaseeSlices,
         time_series_time |-> IF exc = "none" THEN tst ELSE <<>>,
         phase_slice |-> IF exc = "none"
                         THEN [k \in 1 .. Len(tst) |->
                                  [sl \in 1 .. phaseeSlices |-> imin(k, sl)]]
                         ELSE <<>>]

\* The signal lengths the phase signals are drawn from, in samples.
PhaseLengths == {0, 1000, numTimeSteps}

\* The slice counts the arguments are drawn from.
SliceCounts == {2, phaseeSlices, phaseeSlices + 1}

\* The repetition times the arguments are drawn from: 2 s, 2.96 s, 4.44 s.
RepetitionTimes == {400, 592, 888}

\* The arguments of ouputInNimlFormat: parameters['-s'], ['-TR'],
\* ['rvt_out'], ['prefix'], ['slice_offset'] (as getSliceOffsets returns
\* it for the same number of slices), ['phys_fs'], ['num_time_pts'], and the
\* lengths of physiologicalNoiseComponents['respiratory_phases'] and
\* ['cardiac_phases'].
NimlArguments ==
    UNION {[s : {n},
            TR : RepetitionTimes,
            rvt_out : {0, 1},
            prefix : {"out"},
            slice_offset : {[kind |-> "list", list |-> SeqOffsets(n)],
                            [kind |-> "list", list |-> AltOffsets(n)],
                            [kind |-> "None", list |-> <<>>]},
            phys_fs : {25, 50},
            num_time_pts : {109, 220},
            respiratory_phases : PhaseLengths,
            cardiac_phases : PhaseLengths] : n \in SliceCounts}

NimlInit ==
    /\ CardIdle
    /\ RespIdle
    /\ RunIdle
    /\ PeakIdle
    /\ ReadIdle
    /\ nPc = "respiration"
    /\ nArgs \in NimlArguments
    /\ phasee_r = <<>>
    /\ phasee_c = <<>>
    /\ main_info = <<>>
    /\ head = <<>>
    /\ label = <<>>
    /\ reml_out = <<>>
    /\ savedFile = <<>>
    /\ nException = "none"

\* lines 1150-1158
NimlRespiration ==
    /\ nPc = "respiration"
    /\ main_info' = [rvt_out |-> nArgs.rvt_out,
                     number_of_slices |-> nArgs.s,
                     prefix |-> nArgs.prefix,
                     respiration_out |-> nArgs.respiratory_phases > 0,
                     cardiac_out |-> nArgs.cardiac_phases > 0]
    /\ phasee_r' = phase_estimator(nArgs.respiratory_phases, nArgs.slice_offset,
                                   nArgs.TR)
    /\ nPc' = IF phasee_r'.exception = "none" THEN "cardiac" ELSE "raised"
    /\ nException' = phasee_r'.exception
    /\ UNCHANGED <<nArgs, phasee_c, head, label, reml_out, savedFile,
                   cardVars, respVars, runVars, peakVars, readVars>>

\* line 1159
NimlCardiac ==
    /\ nPc = "cardiac"
    /\ phasee_c' = phase_estimator(nArgs.cardiac_phases, nArgs.slice_offset,
                                   nArgs.TR)
    /\ nPc' = IF phasee_c'.exception = "none" THEN "header" ELSE "raised"
    /\ nException' = phasee_c'.exception
    /\ UNCHANGED <<nArgs, phasee_r, main_info, head, label, reml_out, savedFile,
                   cardVars, respVars, runVars, peakVars, readVars>>

\* line 1160: len(list(range(0, 21, 5)))
NumRvtShifts == Cardinality({x \in 0 .. 20 : x % 5 = 0})

\* size(phase_slice_reg, 1), lines 1297-1299 and 1306-1317
NumRegressors == 4

Bool2Int(b) == IF b THEN 1 ELSE 0

\* lines 1180-1184
temp_y_axis(main) ==
    main.number_of_slices * (main.rvt_out * NumRvtShifts
                             + Bool2Int(main.respiration_out) * NumRegressors
                             + Bool2Int(main.cardiac_out) * NumRegressors)

\* lines 1160-1200.  Both calls of phase_estimator have returned, so both
\* dictionaries hold time_series_time.
NimlHeader ==
    /\ nPc = "header"
    /\ head' = [ni_type |-> temp_y_axis(main_info),
                ni_dimen |-> Len(phasee_c.time_series_time)]
    /\ label' = [opening |-> "<RetroTSout", labels |-> <<>>]
    /\ nPc' = "columns"
    /\ UNCHANGED <<nArgs, phasee_r, phasee_c, main_info, reml_out, savedFile,
                   nException, cardVars, respVars, runVars, peakVars, readVars>>

\* lines 1241-1256: the columns appended for slice i (0-based), each one
\* phase_slice_reg[:, j, i] of respiration_info or of cardiac_info.
SliceData(i, main) ==
    (IF main.respiration_out
     THEN [j \in 1 .. NumRegressors |->
              [info |-> "respiration_info", j |-> j - 1, i |-> i]]
     ELSE <<>>)
        \o (IF main.cardiac_out
            THEN [j \in 1 .. NumRegressors |->
                     [info |-> "cardiac_info", j |-> j - 1, i |-> i]]
            ELSE <<>>)

SliceLabelsCardFirst(i, main) ==
    (IF main.cardiac_out
     THEN [j \in 1 .. NumRegressors |-> [s |-> i, type |-> "Card", r |-> j - 1]]
     ELSE <<>>)
        \o (IF main.respiration_out
            THEN [j \in 1 .. NumRegressors |-> [s |-> i, type |-> "Resp", r |-> j - 1]]
            ELSE <<>>)

\* lines 1241-1256: the labels 's%d.Resp%d' and 's%d.Card%d' appended for
\* slice i.
SliceLabels(i, main) ==
    (IF main.respiration_out
     THEN [j \in 1 .. NumRegressors |-> [s |-> i, type |-> "Resp", r |-> j - 1]]
     ELSE <<>>)
        \o (IF main.cardiac_out
            THEN [j \in 1 .. NumRegressors |-> [s |-> i, type |-> "Card", r |-> j - 1]]
            ELSE <<>>)

RECURSIVE DataColumns(_, _)
\* line 1232: the columns of the slices 0 .. n-1
DataColumns(n, main) ==
    IF n = 0 THEN <<>>
    ELSE DataColumns(n - 1, main) \o SliceData(n - 1, main)

RECURSIVE ColumnLabels(_, _)
\* line 1232: the labels of the slices 0 .. n-1
ColumnLabels(n, main) ==
    IF n = 0 THEN <<>>
    ELSE ColumnLabels(n - 1, main) \o SliceLabels(n - 1, main)

\* line 1260: label[1:-2] drops the first character of the text, the "<"
\* of its opening, and the final " ;".
StripLabel(opening) == IF opening = "<RetroTSout" THEN "RetroTSout" ELSE opening

\* lines 1199-1260 (slice_major is 1).  phase_slice_reg has phaseeSlices
\* slices: indexing it with a higher slice raises IndexError.
NimlColumns ==
    /\ nPc = "columns"
    /\ main_info' = [main_info EXCEPT !.rvt_out = 0]
    /\ IF main_info.number_of_slices > phaseeSlices
       THEN /\ nException' = "IndexError"
            /\ nPc' = "raised"
            /\ reml_out' = DataColumns(phaseeSlices, main_info')
            /\ label' = [label EXCEPT !.labels = ColumnLabels(phaseeSlices, main_info')]
       ELSE /\ nPc' = "save"
            /\ reml_out' = DataColumns(main_info.number_of_slices, main_info')
            /\ label' = [opening |-> StripLabel(label.opening),
                         labels |-> ColumnLabels(main_info.number_of_slices,
                                                 main_info')]
            /\ UNCHANGED nException
    /\ UNCHANGED <<nArgs, phasee_r, phasee_c, head, savedFile,
                   cardVars, respVars, runVars, peakVars, readVars>>

\* The number of rows of a data column.
ColumnRows(column) ==
    IF column.info = "respiration_info" THEN Len(phasee_r.time_series_time)
    ELSE Len(phasee_c.time_series_time)

\* lines 1262-1270: np.savetxt of np.column_stack(reml_out) under the header.
NimlSave ==
    /\ nPc = "save"
    /\ savedFile' = [name |-> <<"./", main_info.prefix, ".slibase.1D">>,
                     header |-> [opening |-> label.opening,
                                 ni_type |-> head.ni_type,
                                 ni_dimen |-> head.ni_dimen,
                                 ColumnLabels |-> label.labels],
                     columns |-> reml_out,
                     rows |-> [c \in 1 .. Len(reml_out) |-> ColumnRows(reml_out[c])],
                     footer |-> "</RetroTSout>"]
    /\ nPc' = "saved"
    /\ UNCHANGED <<nArgs, phasee_r, phasee_c, main_info, head, label, reml_out,
                   nException, cardVars, respVars, runVars, peakVars, readVars>>

NimlNext ==
    \/ NimlRespiration
    \/ NimlCardiac
    \/ NimlHeader
    \/ NimlColumns
    \/ NimlSave

SpecNiml == NimlInit /\ [][NimlNext]_vars

(***************************************************************************)
(* Properties of ouputInNimlFormat and phase_estimator                     *)
(***************************************************************************)
\* phase_estimator has been called for this dictionary.
Estimated(phasee) == DOMAIN phasee # {}

\* The two calls of phase_estimator with the length of their phase signal.
Estimates ==
    {[phasee |-> phasee_r, phaseLen |-> nArgs.respiratory_phases],
     [phasee |-> phasee_c, phaseLen |-> nArgs.cardiac_phases]}

\* The index of the sample of a signal of phaseLen samples taken at
\* phys_fs Hz that is nearest to instant + offset (the lowest on a tie).
NearestSample(instant, offset, phaseLen) ==
    LET scale == Len(nArgs.slice_offset.list)
    IN  NearestIndex(scale * instant + offset * nArgs.TR,
                     scale * (TicksPerSecond \div nArgs.phys_fs), phaseLen)

\* C12: phase_estimator, called on a non-empty phase signal with the offset
\* list of the declared slices, returns, and for
\* every declared slice and every output instant the index it used is the
\* one of the signal's sample nearest to instant + slice offset, the sample
\* times being n / phys_fs for 0 <= n < len(signal).
C12_NearestSample ==
    \A e \in Estimates :
        (Estimated(e.phasee) /\ e.phaseLen > 0 /\ nArgs.slice_offset.kind = "list")
            => /\ e.phasee.exception = "none"
               /\ \A k \in 1 .. Len(e.phasee.time_series_time), sl \in 1 .. nArgs.s :
                      /\ sl <= e.phasee.number_of_slices
                      /\ e.phasee.phase_slice[k][sl]
                             = NearestSample(e.phasee.time_series_time[k],
                                             nArgs.slice_offset.list[sl], e.phaseLen)

\* The time grid of a call of phase_estimator that returned.
Grids ==
    {e.phasee.time_series_time :
        e \in {x \in Estimates : Estimated(x.phasee) /\ x.phasee.exception = "none"}}

C14_RowsAreTimePoints ==
    nPc = "saved"
        => \A c \in 1 .. Len(savedFile.columns) :
               savedFile.rows[c] = nArgs.num_time_pts

\* The number of signal types present.
TypesPresent ==
    Bool2Int(nArgs.respiratory_phases > 0) + Bool2Int(nArgs.cardiac_phases > 0)

\* C15: with at least one signal type present and the offset list of the
\* declared slices, ouputInNimlFormat writes a
\* table of N * 4 * (types present) columns, and phase_estimator computed a
\* regressor set for exactly the N declared slices.
C15_ColumnCount ==
    (TypesPresent > 0 /\ nArgs.slice_offset.kind = "list"
        /\ nPc \in {"raised", "saved"})
        => /\ nPc = "saved"
           /\ Len(savedFile.columns) = nArgs.s * 4 * TypesPresent
           /\ phasee_r.number_of_slices = nArgs.s
           /\ phasee_c.number_of_slices = nArgs.s

\* The label that names a data column.
LabelOf(column) ==
    [s |-> column.i,
     type |-> IF column.info = "respiration_info" THEN "Resp" ELSE "Card",
     r |-> column.j]

\* C16: in the file written, there are as many labels as data columns, the
\* k-th label names the k-th column, and the columns run over the slices in
\* ascending order, within a slice over Resp before Card, within a type over
\* the components 0 .. 3.
C16_LabelsNameColumns ==
    nPc = "saved"
        => LET labels == savedFile.header.ColumnLabels
               columns == savedFile.columns
               block == 4 * TypesPresent
           IN  /\ Len(labels) = Len(columns)
               /\ \A k \in 1 .. Len(columns) :
                      /\ labels[k] = LabelOf(columns[k])
                      /\ labels[k].s = (k - 1) \div block
                      /\ labels[k].r = ((k - 1) % block) % 4
                      /\ labels[k].type =
                             IF nArgs.respiratory_phases > 0 /\ (k - 1) % block < 4
                             THEN "Resp" ELSE "Card"

C16_Witness ==
    /\ nPc = "saved"
    /\ Len(savedFile.columns) = 2 * 4 * phaseeSlices
    /\ savedFile.header.ColumnLabels[5] = [s |-> 0, type |-> "Card", r |-> 0]

\* C17: in the file written, the column count of ni_type is the number of
\* data columns and ni_dimen is their number of rows.
C17_HeaderMatchesBody ==
    nPc = "saved"
        => /\ savedFile.header.ni_type = Len(savedFile.columns)
           /\ \A c \in 1 .. Len(savedFile.columns) :
                  savedFile.header.ni_dimen = savedFile.rows[c]

(***************************************************************************)
(* getCardiacPeaks and getRespiratoryPeaks (lib_retroicor.py).             *)
(*                                                                         *)
(* Both functions are a straight line of calls into the filter-stage       *)
(* library, some of them followed by a test that returns early.  A         *)
(* candidate set is "empty" or "some"; what a stage returns is chosen      *)
(* among the results the library's interface allows.                       *)
(***************************************************************************)

\* One step of a recipe: the line of the call, the library function, the
\* kind of stage, the set it updates ("signal", "peaks", "troughs", "both"),
\* whether the call is given the period, and the test that follows the call
\* (printLine 0: none): the line of its print, the line of its return and
\* the number of values returned there.
Step(line, fn, kind, set, period, printLine, returnLine, values) ==
    [line |-> line, fn |-> fn, kind |-> kind, set |-> set, period |-> period,
     printLine |-> printLine, returnLine |-> returnLine, values |-> values]

\* getCardiacPeaks, lines 152-214
CardiacRecipe ==
    << Step(153, "bandPassFilterRawDataAroundDominantFrequency", "bandpass",
            "signal", FALSE, 157, 158, 1),
       Step(161, "find_peaks", "coarse", "peaks", FALSE, 0, 0, 0),
       Step(170, "refinePeakLocations", "refine", "peaks", FALSE, 0, 0, 0),
       Step(175, "localPercentileFilter", "percentile", "peaks", FALSE, 179, 180, 2),
       Step(183, "getTimeSeriesPeriod", "period", "signal", FALSE, 185, 186, 2),
       Step(188, "removeClosePeaks", "merge", "peaks", TRUE, 0, 0, 0),
       Step(196, "removePeaksCloseToHigherPointInRawData", "upstroke", "peaks",
            TRUE, 200, 201, 2),
       Step(204, "removePeaksCloseToHigherPointInRawData", "downstroke", "peaks",
            TRUE, 0, 0, 0),
       Step(209, "removePeaksCloserToLocalMinsThanToAdjacentPeaks", "localmin",
            "peaks", FALSE, 0, 0, 0),
       Step(214, "addMissingPeaks", "gapfill", "peaks", TRUE, 0, 0, 0) >>

\* getRespiratoryPeaks, lines 292-414
RespiratoryRecipe ==
    << Step(293, "bandPassFilterRawDataAroundDominantFrequency", "bandpass",
            "signal", FALSE, 297, 298, 1),
       Step(302, "find_peaks", "coarse", "peaks", FALSE, 0, 0, 0),
       Step(311, "refinePeakLocations", "refine", "peaks", FALSE, 0, 0, 0),
       Step(316, "getTimeSeriesPeriod", "period", "signal", FALSE, 318, 319, 3),
       Step(322, "percentileFilter", "percentile", "peaks", FALSE, 326, 327, 3),
       Step(331, "removePeaksCloseToHigherPointInRawData", "upstroke", "peaks",
            TRUE, 0, 0, 0),
       Step(336, "removePeaksCloseToHigherPointInRawData", "downstroke", "peaks",
            TRUE, 0, 0, 0),
       Step(341, "removePeaksCloserToLocalMinsThanToAdjacentPeaks", "localmin",
            "peaks", FALSE, 0, 0, 0),
       Step(346, "removeClosePeaks", "merge", "peaks", TRUE, 0, 0, 0),
       Step(351, "addMissingPeaks", "gapfill", "peaks", TRUE, 0, 0, 0),
       Step(357, "removePeaksCloseToHigherPointInRawData", "upstroke", "peaks",
            TRUE, 0, 0, 0),
       Step(362, "removePeaksCloseToHigherPointInRawData", "downstroke", "peaks",
            TRUE, 0, 0, 0),
       Step(367, "find_peaks", "coarse", "troughs", FALSE, 0, 0, 0),
       Step(376, "percentileFilter", "percentile", "troughs", FALSE, 380, 381, 3),
       Step(385, "removeTroughsCloseToLowerPointInRawData", "upstroke", "troughs",
            TRUE, 0, 0, 0),
       Step(390, "removeTroughsCloseToLowerPointInRawData", "downstroke", "troughs",
            TRUE, 0, 0, 0),
       Step(396, "removeTroughsCloserToLocalMaxsThanToAdjacentTroughs", "localmin",
            "troughs", FALSE, 0, 0, 0),
       Step(401, "removeClosePeaks", "merge", "troughs", TRUE, 0, 0, 0),
       Step(406, "removeOverlappingPeaksAndTroughs", "reconcile", "both",
            FALSE, 0, 0, 0),
       Step(414, "addMissingPeaksAndTroughs", "reconcile", "both", FALSE, 0, 0, 0) >>

Recipe == IF pFunction = "getCardiacPeaks" THEN CardiacRecipe ELSE RespiratoryRecipe

\* The step the function is at.
NextStep == Recipe[Len(pStages) + 1]

\* What the period estimator can hand back: a finite positive number, or
\* no such number.
PeriodEstimates == {"positive", "zero", "negative", "nan", "inf"}

\* What a stage can hand back for the candidate set it is given.
StageOutcomes(input) == IF input = "some" THEN {"some", "empty"} ELSE {"empty"}

\* A call of a stage, as the history keeps it: the set it was given, the
\* period it was given ("unset": none) and what it returned.
Stage(step, input, output) ==
    [line |-> step.line, fn |-> step.fn, kind |-> step.kind, set |-> step.set,
     input |-> input, period |-> IF step.period THEN pPeriod ELSE "unset",
     output |-> output]

PeaksReturned(line, values, peaks, troughs) ==
    /\ pPc' = "returned"
    /\ pReturn' = [line |-> line, values |-> values, peaks |-> peaks,
                   troughs |-> troughs]

\* The early return that follows a step: cardiac line 201 returns the peaks
\* it has, every other one the literal [].
EarlyReturn(step, peaks) ==
    /\ pPrinted' = Append(pPrinted, step.printLine)
    /\ PeaksReturned(step.returnLine, step.values,
                     IF step.returnLine = 201 THEN peaks ELSE "empty", "empty")

\* lines 153-158 and 293-298
PeaksBandPass ==
    /\ pPc = "recipe"
    /\ Len(pStages) < Len(Recipe)
    /\ NextStep.kind = "bandpass"
    /\ \E out \in {"data", "empty"} :
          /\ pFilterData' = out
          /\ pStages' = Append(pStages, Stage(NextStep, "unset", out))
          /\ IF out = "empty"
             THEN EarlyReturn(NextStep, "empty")
             ELSE UNCHANGED <<pPc, pPrinted, pReturn>>
    /\ UNCHANGED <<pFunction, pPeaks, pTroughs, pPeriod, cardVars, respVars,
                   runVars, nimlVars, readVars>>

\* lines 183-186 and 316-319: the only estimate tested for is a negative
\* one.
PeaksPeriod ==
    /\ pPc = "recipe"
    /\ Len(pStages) < Len(Recipe)
    /\ NextStep.kind = "period"
    /\ \E estimate \in PeriodEstimates :
          /\ pPeriod' = estimate
          /\ pStages' = Append(pStages, Stage(NextStep, "unset", estimate))
          /\ IF estimate = "negative"
             THEN EarlyReturn(NextStep, "empty")
             ELSE UNCHANGED <<pPc, pPrinted, pReturn>>
    /\ UNCHANGED <<pFunction, pFilterData, pPeaks, pTroughs, cardVars, respVars,
                   runVars, nimlVars, readVars>>

\* Every other step: the stage is called on the set as it is, its result
\* is stored, and the test that follows the call, if there is one, looks at
\* the length of the result.
PeaksCandidates ==
    /\ pPc = "recipe"
    /\ Len(pStages) < Len(Recipe)
    /\ NextStep.kind \notin {"bandpass", "period"}
    /\ LET step == NextStep
           coarse == step.kind = "coarse"
           peaksOuts == IF step.set = "troughs" THEN {pPeaks}
                        ELSE StageOutcomes(IF coarse THEN "some" ELSE pPeaks)
           troughsOuts == IF step.set = "peaks" THEN {pTroughs}
                          ELSE StageOutcomes(IF coarse THEN "some" ELSE pTroughs)
       IN  \E peaksOut \in peaksOuts, troughsOut \in troughsOuts :
              /\ pPeaks' = peaksOut
              /\ pTroughs' = troughsOut
              /\ pStages' = Append(pStages,
                                   Stage(step, CASE coarse -> "signal"
                                                 [] step.set = "peaks" -> pPeaks
                                                 [] step.set = "troughs" -> pTroughs
                                                 [] OTHER -> IF "empty" \in {pPeaks, pTroughs}
                                                             THEN "empty" ELSE "some",
                                         CASE step.set = "peaks" -> peaksOut
                                           [] step.set = "troughs" -> troughsOut
                                           [] OTHER -> IF "empty" \in {peaksOut, troughsOut}
                                                       THEN "empty" ELSE "some"))
              /\ IF step.printLine # 0
                    /\ (IF step.set = "troughs" THEN troughsOut ELSE peaksOut) = "empty"
                 THEN EarlyReturn(step, peaksOut)
                 ELSE UNCHANGED <<pPc, pPrinted, pReturn>>
    /\ UNCHANGED <<pFunction, pFilterData, pPeriod, cardVars, respVars, runVars,
                   nimlVars, readVars>>

\* lines 257 and 437
PeaksReturn ==
    /\ pPc = "recipe"
    /\ Len(pStages) = Len(Recipe)
    /\ IF pFunction = "getCardiacPeaks"
       THEN PeaksReturned(257, 2, pPeaks, "empty")
       ELSE PeaksReturned(437, 3, pPeaks, pTroughs)
    /\ UNCHANGED <<pFunction, pFilterData, pPeaks, pTroughs, pPeriod, pStages,
                   pPrinted, cardVars, respVars, runVars, nimlVars, readVars>>

PeaksInit ==
    /\ CardIdle
    /\ RespIdle
    /\ RunIdle
    /\ NimlIdle
    /\ ReadIdle
    /\ pPc = "recipe"
    /\ pFunction \in {"getCardiacPeaks", "getRespiratoryPeaks"}
    /\ pFilterData = "unset"
    /\ pPeaks = "unset"
    /\ pTroughs = "unset"
    /\ pPeriod = "unset"
    /\ pStages = <<>>
    /\ pPrinted = <<>>
    /\ pReturn = [line |-> 0, values |-> 0, peaks |-> "unset", troughs |-> "unset"]

PeaksNext == PeaksBandPass \/ PeaksPeriod \/ PeaksCandidates \/ PeaksReturn

SpecPeaks == PeaksInit /\ [][PeaksNext]_vars

----------------------------------------------------------------------------
(* Properties of the peak finders.                                         *)

\* The function ran to its last line.
ReachedEnd == pPc = "returned" /\ pReturn.line \in {257, 437}

\* The calls made on the signal and on the peaks, by position in the history.
PeakBranch == {k \in 1 .. Len(pStages) : pStages[k].set \in {"signal", "peaks"}}

\* The position of the first call of a stage of this kind in the peak
\* branch (0: never called).
FirstCall(kind) ==
    LET calls == {k \in PeakBranch : pStages[k].kind = kind}
    IN  IF calls = {} THEN 0 ELSE CHOOSE k \in calls : \A j \in calls : k <= j

\* C22: on every run of getCardiacPeaks or getRespiratoryPeaks that reaches
\* the end with peaks, every stage of the recipe has been called on the
\* peaks and the first calls come in the recipe's order: band-pass, coarse
\* search, refinement, percentile rejection, period estimation, merge,
\* upstroke removal, downstroke removal, gap fill, local-minimum-relative
\* removal.
C22_RecipeOrder ==
    LET order == <<"bandpass", "coarse", "refine", "percentile", "period",
                   "merge", "upstroke", "downstroke", "gapfill", "localmin">>
    IN  (ReachedEnd /\ pReturn.peaks = "some")
            => /\ \A a \in 1 .. Len(order) : FirstCall(order[a]) > 0
               /\ \A a, b \in 1 .. Len(order) :
                     a < b => FirstCall(order[a]) < FirstCall(order[b])

\* C23: once the period estimate is not a finite positive number, the
\* function has returned an empty result and the period estimation is the
\* last stage it called.
C23_BadPeriodAborts ==
    pPeriod \in PeriodEstimates \ {"positive"}
        => /\ pPc = "returned"
           /\ pReturn.peaks = "empty"
           /\ pReturn.troughs = "empty"
           /\ pStages[Len(pStages)].kind = "period"

\* The stages that hand back a candidate set, the coarse search aside.
CandidateKinds ==
    {"refine", "percentile", "merge", "upstroke", "downstroke", "gapfill",
     "localmin", "reconcile"}

\* C24: once a stage has returned an empty candidate set, that stage is the
\* last one called, a failure message has been printed and the function has
\* returned an empty result.
C24_EmptyShortCircuits ==
    \A k \in 1 .. Len(pStages) :
        (pStages[k].kind \in CandidateKinds /\ pStages[k].output = "empty")
            => /\ k = Len(pStages)
               /\ pPrinted # <<>>
               /\ pPc = "returned"
               /\ pReturn.peaks = "empty"
               /\ pReturn.troughs = "empty"

(***************************************************************************)
(* readRawInputData (lib_retroicor.py).                                    *)
(*                                                                         *)
(* Samples are integers; StartTime is kept in half seconds, so that        *)
(* -StartTime * phys_fs is the quotient of an integer by 2.                *)
(***************************************************************************)

\* Largest number of samples of a physio column or of a file.
MaxSamples == 3

\* line 957: the value of the artifactual entries some files hold.
Artifact == 5000

SampleValues == {1, 2, Artifact}

SampleLists == UNION {[1 .. n -> SampleValues] : n \in 0 .. MaxSamples}

\* The dictionaries getPhysiologicalNoiseComponents builds (lines 790-792):
\* phys_fs always, StartTime when the caller has one.
RawDataParams ==
    {("phys_fs" :> fs) : fs \in {1, 2}}
        \cup {("phys_fs" :> fs) @@ ("StartTime" :> st) :
                 fs \in {1, 2}, st \in {-3, -2, -1, 0, 1}}

RECURSIVE DropArtifacts(_)
\* lines 953-958: the entries of the file that are not 5000.0, in order.
DropArtifacts(entries) ==
    IF entries = <<>> THEN <<>>
    ELSE (IF Head(entries) = Artifact THEN <<>> ELSE <<Head(entries)>>)
             \o DropArtifacts(Tail(entries))

\* v_np[start_index:-1]
SliceToLast(v, start_index) ==
    IF start_index + 1 > Len(v) - 1 THEN <<>>
    ELSE SubSeq(v, start_index + 1, Len(v) - 1)

\* line 970: round(-respcard_info['StartTime'] * respcard_info["phys_fs"])
StartIndex(info) == RoundHalfEven(-info["StartTime"] * info["phys_fs"], 2)

\* line 969
Trims(info) == "StartTime" \in DOMAIN info /\ info["StartTime"] < 0

ReadInit ==
    /\ CardIdle
    /\ RespIdle
    /\ RunIdle
    /\ NimlIdle
    /\ PeakIdle
    /\ dPc = "read"
    /\ respcard_info \in RawDataParams
    /\ v_np = <<>>
    /\ \/ /\ phys_dat \in SampleLists \ {<<>>}
          /\ filename = "None"
          /\ fileEntries = [entries |-> <<>>, invalid |-> FALSE]
       \/ /\ phys_dat = <<>>
          /\ filename \in {"None", "resp.dat"}
          /\ fileEntries \in [entries : SampleLists, invalid : BOOLEAN]
          /\ filename = "None" => fileEntries = [entries |-> <<>>, invalid |-> FALSE]

\* lines 948-964: without a physio column the file is read, entry by entry;
\* an entry that is no number ends the function with [].
ReadFile ==
    /\ dPc = "read"
    /\ IF Len(phys_dat) = 0
       THEN IF filename = "None"
            THEN /\ dPc' = "TypeError"
                 /\ UNCHANGED <<phys_dat, v_np>>
            ELSE IF fileEntries.invalid
            THEN /\ dPc' = "returned"
                 /\ v_np' = <<>>
                 /\ UNCHANGED phys_dat
            ELSE /\ phys_dat' = DropArtifacts(fileEntries.entries)
                 /\ dPc' = "trim"
                 /\ UNCHANGED v_np
       ELSE /\ dPc' = "trim"
            /\ UNCHANGED <<phys_dat, v_np>>
    /\ UNCHANGED <<respcard_info, filename, fileEntries, cardVars, respVars,
                   runVars, nimlVars, peakVars>>

\* lines 966-974
ReadTrim ==
    /\ dPc = "trim"
    /\ v_np' = IF Trims(respcard_info)
               THEN SliceToLast(phys_dat, StartIndex(respcard_info))
               ELSE phys_dat
    /\ dPc' = "returned"
    /\ UNCHANGED <<respcard_info, filename, fileEntries, phys_dat, cardVars,
                   respVars, runVars, nimlVars, peakVars>>

ReadNext == ReadFile \/ ReadTrim

SpecRead == ReadInit /\ [][ReadNext]_vars

----------------------------------------------------------------------------
(* Properties of readRawInputData.                                         *)

\* The function has returned the array of line 974.
Trimmed == dPc = "returned" /\ ~fileEntries.invalid

\* C30: the array returned holds the samples read (phys_dat at line 966),
\* in order, without the first round(-StartTime * phys_fs) of them when
\* StartTime is negative, and all of them when StartTime is absent or not
\* negative; the last sample is never lost.
C30_TrimKeepsTheRest ==
    Trimmed
        => IF Trims(respcard_info)
           THEN LET start_index == StartIndex(respcard_info)
                IN  v_np = IF start_index >= Len(phys_dat) THEN <<>>
                           ELSE SubSeq(phys_dat, start_index + 1, Len(phys_dat))
           ELSE v_np = phys_dat

====
